---- MODULE Spec2Model ----
(***************************************************************************)
(* LawFlow: generation orchestration (services/generation_service.py) and  *)
(* the two-store publish transaction (services/output_service.py) over a   *)
(* single SQLite connection, the Notion client and the Drive client.       *)
(*                                                                         *)
(* The connection is modelled by two copies of the database: db, what the  *)
(* connection reads and writes (its open transaction included), and        *)
(* committed, what the last conn.commit() made durable.  conn.rollback()   *)
(* is db' = committed, conn.commit() is committed' = db.  remote is the     *)
(* document store and the file store, ids the number of uuids drawn, last  *)
(* what the most recent call was given and answered, ops the number of     *)
(* calls made.  issued lists, in order, the topic, stage and version of    *)
(* every generation start_generation has created.                          *)
(***************************************************************************)
EXTENDS Integers, Sequences, FiniteSets, TLC

VARIABLES db, committed, remote, ids, issued, last, ops

vars == <<db, committed, remote, ids, issued, last, ops>>

(***************************************************************************)
(* Bounds of the model.                                                    *)
(***************************************************************************)
\* uuids drawn by Generation.create
MaxGens == 2
\* pages the document store may hold (bounds the publish attempts)
MaxPages == 2
\* calls made on the connection in one run
MaxOps == 4
\* blocks of a document handed to create_page
MaxBlocks == 250
\* characters of a block's text handed to validate_blocks
MaxChars == 2010

(***************************************************************************)
(* Program constants.                                                      *)
(***************************************************************************)
\* NotionClient.create_page: content_blocks[:100]
PageBlockLimit == 100

\* validate_blocks: len(text_content) > 2000
TextLimit == 2000

\* validate_blocks: len("...")
EllipsisLen == 3

DRIVE_ROOT_FOLDER == "LawFlow"

Stages == {"MK1", "MK2", "MK3"}

GenerationStatus == {"PENDING", "COMPLETED", "FAILED"}

ContentTypes == {"LECTURE_PDF", "SOURCE_MATERIAL", "TUTORIAL_PDF", "TRANSCRIPT"}

(***************************************************************************)
(* Values.  None is modelled per type: 0 for an id, NoUrl for a url,       *)
(* NoText for a text.  A response text is a markdown document of `paras`   *)
(* non-empty top-level paragraphs; tag tells two documents apart.          *)
(***************************************************************************)
NoId == 0

NoUrl == [site |-> "none", id |-> 0]

NoText == [tag |-> "none", paras |-> 0]

\* the empty string ""
EmptyText == [tag |-> "empty", paras |-> 0]

\* faulty variant of Falsy: only None is false
Falsy_NoneOnly(text) == text = NoText

\* Python's `not text`: None and "" are both false
Falsy(text) == text \in {NoText, EmptyText}

NotionUrl(p) == [site |-> "notion", id |-> p]

DriveUrl(f) == [site |-> "drive", id |-> f]

Responses == {[tag |-> "a", paras |-> 2], [tag |-> "b", paras |-> PageBlockLimit + 1]}

DatabaseIds == {"notion-db"}

GenIds == 1 .. MaxGens

TopicIds == {1}

NoError == [kind |-> "none", msg |-> "", id |-> 0, cause |-> ""]

ValueError(msg, id) == [kind |-> "ValueError", msg |-> msg, id |-> id, cause |-> ""]

(***************************************************************************)
(* database/models.py                                                      *)
(***************************************************************************)
\* faulty variant of GenerationCreate: the record starts COMPLETED
GenerationCreate_Completed(id, topic, stage, version, prompt, prev) ==
    [id |-> id, topic_id |-> topic, stage |-> stage, version |-> version,
     prompt_used |-> prompt, response_content |-> NoText,
     notion_page_id |-> NoId, notion_url |-> NoUrl,
     drive_backup_id |-> NoId, drive_backup_url |-> NoUrl,
     previous_generation_id |-> prev, status |-> "COMPLETED"]

\* Generation.create
GenerationCreate(id, topic, stage, version, prompt, prev) ==
    [id |-> id, topic_id |-> topic, stage |-> stage, version |-> version,
     prompt_used |-> prompt, response_content |-> NoText,
     notion_page_id |-> NoId, notion_url |-> NoUrl,
     drive_backup_id |-> NoId, drive_backup_url |-> NoUrl,
     previous_generation_id |-> prev, status |-> "PENDING"]

(***************************************************************************)
(* Repositories: queries over one copy d of the database.                  *)
(***************************************************************************)
HasGeneration(d, g) == g \in DOMAIN d.generations

\* GenerationRepository.create: INSERT, no commit
RepoCreate(d, gen) ==
    [d EXCEPT !.generations = (gen.id :> gen) @@ d.generations]

\* faulty variant of RepoUpdate: the UPDATE leaves the two drive columns out
RepoUpdate_DropsDrive(d, gen) ==
    IF gen.id \in DOMAIN d.generations
    THEN [d EXCEPT !.generations[gen.id] =
            [@ EXCEPT !.response_content = gen.response_content,
                      !.notion_page_id = gen.notion_page_id,
                      !.notion_url = gen.notion_url,
                      !.status = gen.status]]
    ELSE d

\* GenerationRepository.update: UPDATE ... WHERE id = ?, six columns; a missing
\* row makes it a no-op
RepoUpdate(d, gen) ==
    IF HasGeneration(d, gen.id)
    THEN [d EXCEPT !.generations[gen.id] =
            [@ EXCEPT !.response_content = gen.response_content,
                      !.notion_page_id = gen.notion_page_id,
                      !.notion_url = gen.notion_url,
                      !.drive_backup_id = gen.drive_backup_id,
                      !.drive_backup_url = gen.drive_backup_url,
                      !.status = gen.status]]
    ELSE d

\* faulty variant of GensOf: the WHERE clause leaves the stage out
GensOf_AnyStage(d, topic, stage) ==
    {g \in DOMAIN d.generations : d.generations[g].topic_id = topic}

\* the rows WHERE topic_id = ? AND stage = ?
GensOf(d, topic, stage) ==
    {g \in DOMAIN d.generations :
        /\ d.generations[g].topic_id = topic
        /\ d.generations[g].stage = stage}

\* faulty variant of get_completed_for_stage: the status is not looked at
get_completed_for_stage_AnyStatus(d, topic, stage) == GensOf(d, topic, stage)

\* GenerationRepository.get_completed_for_stage (as a set; see LatestCompleted)
get_completed_for_stage(d, topic, stage) ==
    {g \in GensOf(d, topic, stage) : d.generations[g].status = "COMPLETED"}

\* faulty variant of LatestCompleted: the list is read from its other end
LatestCompleted_Lowest(d, topic, stage) ==
    {g \in get_completed_for_stage(d, topic, stage) :
        \A h \in get_completed_for_stage(d, topic, stage) :
            d.generations[g].version <= d.generations[h].version}

\* completed[0] of the list ORDER BY version DESC
LatestCompleted(d, topic, stage) ==
    {g \in get_completed_for_stage(d, topic, stage) :
        \A h \in get_completed_for_stage(d, topic, stage) :
            d.generations[h].version <= d.generations[g].version}

MaxVersion(d, S) ==
    IF S = {} THEN 0
    ELSE LET m == CHOOSE g \in S : \A h \in S :
                      d.generations[h].version <= d.generations[g].version
         IN d.generations[m].version

\* faulty variant of get_next_version: the existing versions are not looked at
get_next_version_AlwaysOne(d, topic, stage) == 1

\* GenerationRepository.get_next_version
get_next_version(d, topic, stage) == MaxVersion(d, GensOf(d, topic, stage)) + 1

\* ContentRepository.get_for_topic: active items, ORDER BY uploaded_at DESC
\* faulty variant of ActiveContent: soft-deleted items are listed as well
ActiveContent_All(d, topic) == {c \in d.content : c.topic_id = topic}

ActiveContent(d, topic) ==
    {c \in d.content : c.topic_id = topic /\ c.is_active}

RECURSIVE NewestFirst(_)
NewestFirst(S) ==
    IF S = {} THEN <<>>
    ELSE LET m == CHOOSE x \in S : \A y \in S : y.uploaded_at <= x.uploaded_at
         IN <<m>> \o NewestFirst(S \ {m})

get_for_topic(d, topic) == NewestFirst(ActiveContent(d, topic))

(***************************************************************************)
(* services/prompt_service.py                                              *)
(***************************************************************************)
\* faulty variant of get_required_files_for_stage: MK1 asks for the transcript,
\* which MK2 does not
get_required_files_for_stage_MK1Transcript(stage) ==
    CASE stage = "MK1" -> <<"LECTURE_PDF", "TRANSCRIPT">>
      [] stage = "MK2" -> <<"LECTURE_PDF", "SOURCE_MATERIAL", "TUTORIAL_PDF">>
      [] stage = "MK3" -> <<"LECTURE_PDF", "SOURCE_MATERIAL", "TUTORIAL_PDF",
                            "TRANSCRIPT">>

\* faulty variant of get_required_files_for_stage: MK2 and MK3 do not ask for
\* the tutorial
get_required_files_for_stage_NoTutorial(stage) ==
    CASE stage = "MK1" -> <<"LECTURE_PDF">>
      [] stage = "MK2" -> <<"LECTURE_PDF", "SOURCE_MATERIAL">>
      [] stage = "MK3" -> <<"LECTURE_PDF", "SOURCE_MATERIAL", "TRANSCRIPT">>

get_required_files_for_stage(stage) ==
    CASE stage = "MK1" -> <<"LECTURE_PDF">>
      [] stage = "MK2" -> <<"LECTURE_PDF", "SOURCE_MATERIAL", "TUTORIAL_PDF">>
      [] stage = "MK3" -> <<"LECTURE_PDF", "SOURCE_MATERIAL", "TUTORIAL_PDF",
                            "TRANSCRIPT">>

\* the variables build_prompt hands to the stage's template
TemplateVars(stage, topic_name, module_name, file_names, previous_content) ==
    [stage |-> stage, topic_name |-> topic_name, module_name |-> module_name,
     files |-> file_names,
     previous_content |-> IF stage = "MK3" THEN previous_content ELSE NoText]

\* build_prompt: for MK3 a previous_content of None raises ValueError; any
\* other value, the empty string included, is handed to the template
build_prompt(stage, topic_name, module_name, file_names, previous_content) ==
    IF stage = "MK3" /\ previous_content = NoText
    THEN [error |-> ValueError("MK3 requires previous_content", NoId),
          prompt |-> NoText]
    ELSE [error |-> NoError,
          prompt |-> TemplateVars(stage, topic_name, module_name, file_names,
                                  previous_content)]

(***************************************************************************)
(* services/generation_service.py                                          *)
(***************************************************************************)
\* required_type.value.replace('_', ' ').title()
MissingMessage(t) ==
    CASE t = "LECTURE_PDF" -> "Missing Lecture Pdf"
      [] t = "SOURCE_MATERIAL" -> "Missing Source Material"
      [] t = "TUTORIAL_PDF" -> "Missing Tutorial Pdf"
      [] t = "TRANSCRIPT" -> "Missing Transcript"

RECURSIVE MissingFiles(_, _)
MissingFiles(required, uploaded) ==
    IF required = <<>> THEN <<>>
    ELSE (IF Head(required) \in uploaded THEN <<>>
          ELSE <<MissingMessage(Head(required))>>)
         \o MissingFiles(Tail(required), uploaded)

\* faulty variant of can_generate_stage: the MK2 check is made before the file
\* loop
can_generate_stage_MK2First(d, topic, stage) ==
    LET uploaded == {c.content_type : c \in ActiveContent(d, topic)}
    IN (IF stage = "MK3" /\ get_completed_for_stage(d, topic, "MK2") = {}
        THEN <<"Missing completed MK2 generation">> ELSE <<>>)
       \o MissingFiles(get_required_files_for_stage(stage), uploaded)

\* the missing_requirements list; can_generate is that it is empty
can_generate_stage(d, topic, stage) ==
    LET uploaded == {c.content_type : c \in ActiveContent(d, topic)}
    IN MissingFiles(get_required_files_for_stage(stage), uploaded)
       \o (IF stage = "MK3" /\ get_completed_for_stage(d, topic, "MK2") = {}
           THEN <<"Missing completed MK2 generation">> ELSE <<>>)

FileNames(items) == [i \in 1 .. Len(items) |-> items[i].file_name]

\* faulty variant of StartFailed: the record is inserted before the gate's
\* answer is looked at, and stays
StartFailed_StillCreates(topic, stage, err, missing) ==
    LET gen == GenerationCreate(ids + 1, topic, stage,
                                get_next_version(db, topic, stage), NoText, NoId)
    IN /\ db' = RepoCreate(db, gen)
       /\ ids' = ids + 1
       /\ issued' = Append(issued, [topic_id |-> topic, stage |-> stage,
                                     version |-> gen.version, id |-> gen.id])
       /\ last' = [op |-> "start_generation", topic |-> topic, stage |-> stage,
                   error |-> err, missing |-> missing, gen |-> NoId]
       /\ UNCHANGED <<committed, remote>>

\* start_generation raises ValueError; nothing was written
StartFailed(topic, stage, err, missing) ==
    /\ last' = [op |-> "start_generation", topic |-> topic, stage |-> stage,
                error |-> err, missing |-> missing, gen |-> NoId]
    /\ UNCHANGED <<db, committed, remote, ids, issued>>

\* lines 133-164: what build_prompt answers for the topic, the stage and the
\* previous generation (NoId: none)
PromptOf(topic, stage, prev) ==
    LET t == db.topics[topic]
        m == db.modules[t.module_id]
        previous_content == IF prev = NoId THEN NoText
                            ELSE db.generations[prev].response_content
    IN build_prompt(stage, t.name, m.name,
                    FileNames(get_for_topic(db, topic)), previous_content)

StartCreated(topic, stage, prev) ==
    LET prompt == PromptOf(topic, stage, prev).prompt
        gen == GenerationCreate(ids + 1, topic, stage,
                                get_next_version(db, topic, stage), prompt, prev)
    IN /\ db' = RepoCreate(db, gen)
       /\ ids' = ids + 1
       /\ issued' = Append(issued, [topic_id |-> topic, stage |-> stage,
                                     version |-> gen.version, id |-> gen.id])
       /\ last' = [op |-> "start_generation", topic |-> topic, stage |-> stage,
                   error |-> NoError, missing |-> <<>>, gen |-> gen.id]
       /\ UNCHANGED <<committed, remote>>

\* lines 157-181: an error of build_prompt is passed on, else the record is
\* created
StartBuilt(topic, stage, prev) ==
    IF PromptOf(topic, stage, prev).error # NoError
    THEN StartFailed(topic, stage, PromptOf(topic, stage, prev).error, <<>>)
    ELSE StartCreated(topic, stage, prev)

\* faulty variant of start_generation: topic and module are looked up before
\* the gate is asked
start_generation_LooksUpFirst(topic, stage) ==
    /\ can_generate_stage(db, topic, stage) = <<>> => ids < MaxGens
    /\ LET missing == can_generate_stage(db, topic, stage)
       IN IF topic \notin DOMAIN db.topics
          THEN StartFailed(topic, stage, ValueError("Topic not found", topic), <<>>)
          ELSE IF db.topics[topic].module_id \notin DOMAIN db.modules
          THEN StartFailed(topic, stage,
                           ValueError("Module not found", db.topics[topic].module_id), <<>>)
          ELSE IF missing # <<>>
          THEN StartFailed(topic, stage, ValueError("Cannot generate", NoId), missing)
          ELSE IF stage # "MK3"
          THEN StartBuilt(topic, stage, NoId)
          ELSE \E prev \in LatestCompleted(db, topic, "MK2") :
                  IF Falsy(db.generations[prev].response_content)
                  THEN StartFailed(topic, stage,
                                   ValueError("MK2 completed without response", NoId), <<>>)
                  ELSE StartBuilt(topic, stage, prev)

\* start_generation, lines 114-181 (no commit).  The gate's error message
\* names the stage and joins the reasons (kept as the list in last.missing).
start_generation(topic, stage) ==
    /\ can_generate_stage(db, topic, stage) = <<>> => ids < MaxGens
    /\ LET missing == can_generate_stage(db, topic, stage)
       IN IF missing # <<>>
          THEN StartFailed(topic, stage, ValueError("Cannot generate", NoId), missing)
          ELSE IF topic \notin DOMAIN db.topics
          THEN StartFailed(topic, stage, ValueError("Topic not found", topic), <<>>)
          ELSE IF db.topics[topic].module_id \notin DOMAIN db.modules
          THEN StartFailed(topic, stage,
                           ValueError("Module not found", db.topics[topic].module_id), <<>>)
          ELSE IF stage # "MK3"
          THEN StartBuilt(topic, stage, NoId)
          ELSE \E prev \in LatestCompleted(db, topic, "MK2") :
                  IF Falsy(db.generations[prev].response_content)
                  THEN StartFailed(topic, stage,
                                   ValueError("MK2 completed without response", NoId), <<>>)
                  ELSE StartBuilt(topic, stage, prev)

\* faulty variant of update_generation_response: the record written is a fresh
\* one, with the artifact references at None
update_generation_response_FreshRecord(g, r) ==
    /\ IF ~HasGeneration(db, g)
       THEN /\ last' = [op |-> "update_generation_response", gen |-> g, text |-> r,
                        error |-> ValueError("Generation not found", g)]
            /\ UNCHANGED db
       ELSE /\ db' = RepoUpdate(db, [db.generations[g] EXCEPT
                                        !.response_content = r,
                                        !.status = "COMPLETED",
                                        !.notion_page_id = NoId,
                                        !.notion_url = NoUrl,
                                        !.drive_backup_id = NoId,
                                        !.drive_backup_url = NoUrl])
            /\ last' = [op |-> "update_generation_response", gen |-> g, text |-> r,
                        error |-> NoError]
    /\ UNCHANGED <<committed, remote, ids, issued>>

\* update_generation_response: lines 235-245 (no commit)
update_generation_response(g, r) ==
    /\ IF ~HasGeneration(db, g)
       THEN /\ last' = [op |-> "update_generation_response", gen |-> g, text |-> r,
                        error |-> ValueError("Generation not found", g)]
            /\ UNCHANGED db
       ELSE /\ db' = RepoUpdate(db, [db.generations[g] EXCEPT
                                        !.response_content = r,
                                        !.status = "COMPLETED"])
            /\ last' = [op |-> "update_generation_response", gen |-> g, text |-> r,
                        error |-> NoError]
    /\ UNCHANGED <<committed, remote, ids, issued>>

\* faulty variant of mark_generation_failed: the record is reset as well, its
\* text and artifact references set to None
mark_generation_failed_Resets(g) ==
    /\ IF ~HasGeneration(db, g)
       THEN /\ last' = [op |-> "mark_generation_failed", gen |-> g,
                        error |-> ValueError("Generation not found", g)]
            /\ UNCHANGED db
       ELSE /\ db' = RepoUpdate(db, [db.generations[g] EXCEPT
                                        !.status = "FAILED",
                                        !.response_content = NoText,
                                        !.notion_page_id = NoId,
                                        !.notion_url = NoUrl,
                                        !.drive_backup_id = NoId,
                                        !.drive_backup_url = NoUrl])
            /\ last' = [op |-> "mark_generation_failed", gen |-> g, error |-> NoError]
    /\ UNCHANGED <<committed, remote, ids, issued>>

\* mark_generation_failed: lines 266-272 (no commit)
mark_generation_failed(g) ==
    /\ IF ~HasGeneration(db, g)
       THEN /\ last' = [op |-> "mark_generation_failed", gen |-> g,
                        error |-> ValueError("Generation not found", g)]
            /\ UNCHANGED db
       ELSE /\ db' = RepoUpdate(db, [db.generations[g] EXCEPT !.status = "FAILED"])
            /\ last' = [op |-> "mark_generation_failed", gen |-> g, error |-> NoError]
    /\ UNCHANGED <<committed, remote, ids, issued>>

(***************************************************************************)
(* integrations/markdown_converter.py, on a document of top-level          *)
(* paragraphs: one paragraph block per non-empty paragraph; validate_blocks *)
(* keeps every block.  Only the number of blocks matters to create_page.    *)
(***************************************************************************)
markdown_to_notion_blocks(r) == r.paras

validate_blocks(blocks) == blocks

\* validate_blocks on the text of one block, a text of n characters: what is
\* kept of it and whether "..." is put behind it
TruncateContent(n) ==
    IF n > TextLimit THEN [kept |-> TextLimit, marker |-> TRUE]
    ELSE [kept |-> n, marker |-> FALSE]

\* len of the text TruncateContent answers
ContentLen(c) == c.kept + (IF c.marker THEN EllipsisLen ELSE 0)

(***************************************************************************)
(* integrations/notion_client.py.  The store is a sequence of pages, a     *)
(* page's id is its index.  Results carry the remote calls made, in order. *)
(***************************************************************************)
Call(name, ok) == [call |-> name, ok |-> ok]

Min(a, b) == IF a <= b THEN a ELSE b

\* number of chunks _append_children sends for n remaining blocks
NumChunks(n) == (n + PageBlockLimit - 1) \div PageBlockLimit

\* _append_children(page_id, blocks): chunk failAt (0: none) raises; the chunks
\* before it were appended
append_children(pages, page_id, n, failAt) ==
    LET sent == IF failAt = 0 THEN n ELSE Min(n, (failAt - 1) * PageBlockLimit)
        done == IF failAt = 0 THEN NumChunks(n) ELSE failAt - 1
    IN [pages |-> [pages EXCEPT ![page_id].blocks = @ + sent],
        raised |-> failAt # 0,
        calls |-> [i \in 1 .. done |-> Call("blocks.children.append", TRUE)]
                  \o (IF failAt # 0 THEN <<Call("blocks.children.append", FALSE)>>
                      ELSE <<>>)]

\* Python's blocks[a:b]
Slice(blocks, a, b) ==
    SubSeq(blocks, Min(a, Len(blocks)) + 1, Min(b, Len(blocks)))

\* faulty variant of AppendChunks: each chunk starts one block late
AppendChunks_SkipsOne(blocks) ==
    [k \in 1 .. NumChunks(Len(blocks)) |->
        Slice(blocks, (k - 1) * PageBlockLimit + 1, k * PageBlockLimit)]

\* _append_children: the chunks blocks[i:i+100] for i in range(0, len, 100),
\* in the order they are sent
AppendChunks(blocks) ==
    [k \in 1 .. NumChunks(Len(blocks)) |->
        Slice(blocks, (k - 1) * PageBlockLimit, k * PageBlockLimit)]

\* create_page: the children lists of its calls in call order, pages.create
\* with content_blocks[:100] first, then the appends of content_blocks[100:]
SentChildren(content_blocks) ==
    <<Slice(content_blocks, 0, PageBlockLimit)>>
    \o AppendChunks(Slice(content_blocks, PageBlockLimit, Len(content_blocks)))

\* create_page: pages.create with the first 100 blocks, then the appends
create_page(pages, database_id, title, properties, n, failCreate, failAt) ==
    LET initial == Min(n, PageBlockLimit)
        remaining == n - initial
        page_id == Len(pages) + 1
        created == Append(pages, [archived |-> FALSE, database |-> database_id,
                                  title |-> title, properties |-> properties,
                                  blocks |-> initial])
    IN IF failCreate
       THEN [pages |-> pages, raised |-> TRUE, cause |-> "pages.create failed",
             id |-> NoId, url |-> NoUrl, calls |-> <<Call("pages.create", FALSE)>>]
       ELSE IF remaining > 0
       THEN LET a == append_children(created, page_id, remaining, failAt)
            IN [pages |-> a.pages, raised |-> a.raised,
                cause |-> IF a.raised THEN "blocks.children.append failed" ELSE "",
                id |-> IF a.raised THEN NoId ELSE page_id,
                url |-> IF a.raised THEN NoUrl ELSE NotionUrl(page_id),
                calls |-> <<Call("pages.create", TRUE)>> \o a.calls]
       ELSE [pages |-> created, raised |-> FALSE, cause |-> "",
             id |-> page_id, url |-> NotionUrl(page_id),
             calls |-> <<Call("pages.create", TRUE)>>]

\* faulty variant of archive_page: the page is left as it is
archive_page_Never(pages, page_id, fails) == pages

\* client.pages.update(page_id, archived=True)
archive_page(pages, page_id, fails) ==
    IF fails THEN pages ELSE [pages EXCEPT ![page_id].archived = TRUE]

(***************************************************************************)
(* integrations/drive_client.py.  Folders and files are sequences, an id   *)
(* is an index; parent 0 is "no parent_id".                                *)
(***************************************************************************)
\* the files().list query of get_or_create_folder
FolderMatches(folders, name, parent_id) ==
    {i \in 1 .. Len(folders) :
        /\ folders[i].name = name
        /\ ~folders[i].trashed
        /\ (parent_id # NoId => folders[i].parent = parent_id)}

\* get_or_create_folder: the possible results (files[0] is any match)
get_or_create_folder(folders, name, parent_id, fails) ==
    IF fails
    THEN {[folders |-> folders, id |-> NoId, raised |-> TRUE]}
    ELSE IF FolderMatches(folders, name, parent_id) # {}
    THEN {[folders |-> folders, id |-> i, raised |-> FALSE] :
             i \in FolderMatches(folders, name, parent_id)}
    ELSE {[folders |-> Append(folders, [name |-> name, parent |-> parent_id,
                                         trashed |-> FALSE]),
           id |-> Len(folders) + 1, raised |-> FALSE]}

\* upload_file
upload_file(files, content, file_name, folder_id, fails) ==
    IF fails
    THEN [files |-> files, raised |-> TRUE, id |-> NoId, url |-> NoUrl]
    ELSE [files |-> Append(files, [trashed |-> FALSE, name |-> file_name,
                                   folder |-> folder_id, content |-> content]),
          raised |-> FALSE, id |-> Len(files) + 1, url |-> DriveUrl(Len(files) + 1)]

\* delete_file: trashes the file; a failure is caught and answered False
delete_file(files, file_id, fails) ==
    IF fails THEN files ELSE [files EXCEPT ![file_id].trashed = TRUE]

(***************************************************************************)
(* services/output_service.py                                              *)
(***************************************************************************)
FailPoints == {"none", "convert", "pages.create", "append", "folder_root",
               "folder_module", "folder_topic", "upload", "update", "commit"}

\* how the write of the FAILED status ends (lines 179-185)
MarkOutcomes == {"ok", "update failed", "commit failed"}

NoResult == [notion_url |-> NoUrl, drive_url |-> NoUrl, generation_id |-> NoId]

\* the wrapping error of lines 188-190
WrappedError(generation_id, cause) ==
    [kind |-> "Exception", msg |-> "Failed to process response for generation",
     id |-> generation_id, cause |-> cause]

\* lines 129-137: root, module and topic folder, each get-or-create
EnsureFolders(folders, module_name, topic_name, fail) ==
    LET Stop(f, n) ==
            [folders |-> f, id |-> NoId, raised |-> TRUE,
             root_id |-> NoId, module_folder_id |-> NoId,
             calls |-> [i \in 1 .. n |-> Call("get_or_create_folder", i < n)]]
    IN UNION {
         IF a.raised THEN {Stop(a.folders, 1)}
         ELSE UNION {
           IF b.raised THEN {Stop(b.folders, 2)}
           ELSE {IF c.raised THEN Stop(c.folders, 3)
                 ELSE [folders |-> c.folders, id |-> c.id, raised |-> FALSE,
                       root_id |-> a.id, module_folder_id |-> b.id,
                       calls |-> [i \in 1 .. 3 |-> Call("get_or_create_folder", TRUE)]] :
                 c \in get_or_create_folder(b.folders, topic_name, b.id,
                                            fail = "folder_topic")} :
           b \in get_or_create_folder(a.folders, module_name, a.id,
                                      fail = "folder_module")} :
         a \in get_or_create_folder(folders, DRIVE_ROOT_FOLDER, NoId,
                                    fail = "folder_root")}

\* faulty variant of CompleteGeneration: step 6 forgets the response text
CompleteGeneration_KeepsText(gen, r, page_id, page_url, file_id, file_url) ==
    [gen EXCEPT !.notion_page_id = page_id,
                !.notion_url = page_url,
                !.drive_backup_id = file_id,
                !.drive_backup_url = file_url,
                !.status = "COMPLETED"]

\* lines 152-157: the in-memory record of step 6
CompleteGeneration(gen, r, page_id, page_url, file_id, file_url) ==
    [gen EXCEPT !.response_content = r,
                !.notion_page_id = page_id,
                !.notion_url = page_url,
                !.drive_backup_id = file_id,
                !.drive_backup_url = file_url,
                !.status = "COMPLETED"]

\* faulty variant of FailGeneration: the handler resets the status
FailGeneration_Pending(gen) == [gen EXCEPT !.status = "PENDING"]

\* line 180
FailGeneration(gen) == [gen EXCEPT !.status = "FAILED"]

\* where the try block stopped: the stores, the handler's locals, the
\* in-memory generation, the remote calls made
Stopped(rem, page_id, file_id, gen, cause, calls) ==
    [ok |-> FALSE, remote |-> rem, notion_page_id |-> page_id,
     drive_file_id |-> file_id, generation |-> gen, cause |-> cause,
     calls |-> calls, result |-> NoResult]

\* faulty variant of UploadAndUpdate: a failed upload is not noticed, and the
\* record is updated and committed all the same
UploadAndUpdate_IgnoresUpload(rem, gen, r, page, folder_id, fail, calls) ==
    LET up == upload_file(rem.files, r, <<gen.stage, gen.version>>, folder_id,
                          fail = "upload")
        rem1 == [rem EXCEPT !.files = up.files]
        mem == CompleteGeneration(gen, r, page.id, page.url, up.id, up.url)
    IN IF fail = "update"
       THEN Stopped(rem1, page.id, up.id, mem, "update failed",
                    calls \o <<Call("upload_file", TRUE),
                               Call("generation_repo.update", FALSE)>>)
       ELSE IF fail = "commit"
       THEN Stopped(rem1, page.id, up.id, mem, "commit failed",
                    calls \o <<Call("upload_file", TRUE),
                               Call("generation_repo.update", TRUE),
                               Call("conn.commit", FALSE)>>)
       ELSE [ok |-> TRUE, remote |-> rem1, notion_page_id |-> page.id,
             drive_file_id |-> up.id, generation |-> mem, cause |-> "",
             calls |-> calls \o <<Call("upload_file", ~up.raised),
                                  Call("generation_repo.update", TRUE),
                                  Call("conn.commit", TRUE)>>,
             result |-> [notion_url |-> page.url, drive_url |-> up.url,
                         generation_id |-> gen.id]]

\* lines 139-169: upload, step 6, update, commit, return; calls lists the steps
\* taken, the two local writes after the remote calls
UploadAndUpdate(rem, gen, r, page, folder_id, fail, calls) ==
    LET up == upload_file(rem.files, r, <<gen.stage, gen.version>>, folder_id,
                          fail = "upload")
        rem1 == [rem EXCEPT !.files = up.files]
        mem == CompleteGeneration(gen, r, page.id, page.url, up.id, up.url)
    IN IF up.raised
       THEN Stopped(rem, page.id, NoId, gen, "upload_file failed",
                    Append(calls, Call("upload_file", FALSE)))
       ELSE IF fail = "update"
       THEN Stopped(rem1, page.id, up.id, mem, "update failed",
                    calls \o <<Call("upload_file", TRUE),
                               Call("generation_repo.update", FALSE)>>)
       ELSE IF fail = "commit"
       THEN Stopped(rem1, page.id, up.id, mem, "commit failed",
                    calls \o <<Call("upload_file", TRUE),
                               Call("generation_repo.update", TRUE),
                               Call("conn.commit", FALSE)>>)
       ELSE [ok |-> TRUE, remote |-> rem1, notion_page_id |-> page.id,
             drive_file_id |-> up.id, generation |-> mem, cause |-> "",
             calls |-> calls \o <<Call("upload_file", TRUE),
                                  Call("generation_repo.update", TRUE),
                                  Call("conn.commit", TRUE)>>,
             result |-> [notion_url |-> page.url, drive_url |-> up.url,
                         generation_id |-> gen.id]]

\* lines 100-169, the try block: the set of ways it can end
TryBlock(rem, gen, topic, module, r, database_id, fail, k) ==
    LET n == validate_blocks(markdown_to_notion_blocks(r))
        title == <<module.name, topic.name, gen.stage>>
        properties == [Topic |-> topic.name, Stage |-> gen.stage,
                       Version |-> gen.version, Status |-> "Current"]
        page == create_page(rem.pages, database_id, title, properties, n,
                            fail = "pages.create", IF fail = "append" THEN k ELSE 0)
        rem1 == [rem EXCEPT !.pages = page.pages]
    IN IF fail = "convert"
       THEN {Stopped(rem, NoId, NoId, gen, "conversion failed", <<>>)}
       ELSE IF page.raised
       THEN {Stopped(rem1, NoId, NoId, gen, page.cause, page.calls)}
       ELSE {IF f.raised
             THEN Stopped([rem1 EXCEPT !.folders = f.folders], page.id, NoId, gen,
                          "get_or_create_folder failed", page.calls \o f.calls)
             ELSE UploadAndUpdate([rem1 EXCEPT !.folders = f.folders], gen, r,
                                  page, f.id, fail, page.calls \o f.calls) :
             f \in EnsureFolders(rem1.folders, module.name, topic.name, fail)}

\* faulty variant of Rollback: the archive call is not inside a try, so its
\* failure escapes and the file is never trashed
Rollback_Unguarded(rem, notion_page_id, drive_file_id, archiveFails, trashFails) ==
    LET escapes == notion_page_id # NoId /\ archiveFails
        pages == IF notion_page_id # NoId
                 THEN archive_page(rem.pages, notion_page_id, archiveFails)
                 ELSE rem.pages
        files == IF drive_file_id # NoId /\ ~escapes
                 THEN delete_file(rem.files, drive_file_id, trashFails)
                 ELSE rem.files
    IN [remote |-> [rem EXCEPT !.pages = pages, !.files = files],
        escaped |-> escapes,
        calls |-> (IF notion_page_id # NoId
                   THEN <<Call("pages.update", ~archiveFails)>> ELSE <<>>)
                  \o (IF drive_file_id # NoId /\ ~escapes
                      THEN <<Call("delete_file", ~trashFails)>> ELSE <<>>)]

\* _rollback, lines 192-219: each compensation in its own try; nothing escapes
Rollback(rem, notion_page_id, drive_file_id, archiveFails, trashFails) ==
    LET pages == IF notion_page_id # NoId
                 THEN archive_page(rem.pages, notion_page_id, archiveFails)
                 ELSE rem.pages
        files == IF drive_file_id # NoId
                 THEN delete_file(rem.files, drive_file_id, trashFails)
                 ELSE rem.files
    IN [remote |-> [rem EXCEPT !.pages = pages, !.files = files],
        escaped |-> FALSE,
        calls |-> (IF notion_page_id # NoId
                   THEN <<Call("pages.update", ~archiveFails)>> ELSE <<>>)
                  \o (IF drive_file_id # NoId
                      THEN <<Call("delete_file", ~trashFails)>> ELSE <<>>)]

\* the committed status of g when the call starts ("" without a committed row)
DurableStatus(g) ==
    IF HasGeneration(committed, g) THEN committed.generations[g].status ELSE ""

\* faulty variant of ProcessRejected: the precondition is checked inside the
\* try block, so the handler writes FAILED and commits
ProcessRejected_MarksFailed(g, r, err) ==
    /\ last' = [op |-> "process_response", gen |-> g, text |-> r, error |-> err,
                result |-> NoResult, calls |-> <<>>, cause |-> "",
                notion_page_id |-> NoId, drive_file_id |-> NoId, marked |-> "",
                fetched |-> IF HasGeneration(db, g) THEN db.generations[g].status
                            ELSE "",
                durable |-> DurableStatus(g)]
    /\ db' = IF HasGeneration(committed, g)
             THEN RepoUpdate(committed, FailGeneration(committed.generations[g]))
             ELSE committed
    /\ committed' = db'
    /\ UNCHANGED <<remote, ids, issued>>

\* lines 80-94: a precondition raises ValueError before the try block
ProcessRejected(g, r, err) ==
    /\ last' = [op |-> "process_response", gen |-> g, text |-> r, error |-> err,
                result |-> NoResult, calls |-> <<>>, cause |-> "",
                notion_page_id |-> NoId, drive_file_id |-> NoId, marked |-> "",
                fetched |-> IF HasGeneration(db, g) THEN db.generations[g].status
                            ELSE "",
                durable |-> DurableStatus(g)]
    /\ UNCHANGED <<db, committed, remote, ids, issued>>

\* lines 159-169: update, commit, return
ProcessSucceeded(g, r, out) ==
    /\ db' = RepoUpdate(db, out.generation)
    /\ committed' = db'
    /\ remote' = out.remote
    /\ last' = [op |-> "process_response", gen |-> g, text |-> r, error |-> NoError,
                result |-> out.result, calls |-> out.calls, cause |-> "",
                notion_page_id |-> out.notion_page_id,
                drive_file_id |-> out.drive_file_id, marked |-> "",
                fetched |-> db.generations[g].status,
                durable |-> DurableStatus(g)]
    /\ UNCHANGED <<ids, issued>>

\* faulty variant of ProcessFailed: the write of FAILED is not inside a try,
\* so its failure is what the caller gets
ProcessFailed_Tertiary(g, r, out, archiveFails, trashFails, mark) ==
    LET rb == Rollback(out.remote, out.notion_page_id, out.drive_file_id,
                       archiveFails, trashFails)
        failed == FailGeneration(out.generation)
    IN /\ remote' = rb.remote
       /\ IF rb.escaped
          THEN UNCHANGED <<db, committed>>
          ELSE /\ db' = IF mark = "update failed" THEN committed
                        ELSE RepoUpdate(committed, failed)
               /\ committed' = IF mark = "ok" THEN db' ELSE committed
       /\ last' = [op |-> "process_response", gen |-> g, text |-> r,
                   error |-> IF rb.escaped
                             THEN [kind |-> "Exception", msg |-> "rollback failed",
                                   id |-> NoId, cause |-> ""]
                             ELSE IF mark # "ok"
                             THEN [kind |-> "Exception", msg |-> mark,
                                   id |-> NoId, cause |-> ""]
                             ELSE WrappedError(g, out.cause),
                   result |-> NoResult, calls |-> out.calls \o rb.calls,
                   cause |-> out.cause,
                   notion_page_id |-> out.notion_page_id,
                   drive_file_id |-> out.drive_file_id,
                   marked |-> IF rb.escaped THEN "" ELSE mark,
                   fetched |-> db.generations[g].status,
                   durable |-> DurableStatus(g)]
       /\ UNCHANGED <<ids, issued>>

\* lines 171-190, the except block
ProcessFailed(g, r, out, archiveFails, trashFails, mark) ==
    LET rb == Rollback(out.remote, out.notion_page_id, out.drive_file_id,
                       archiveFails, trashFails)
        failed == FailGeneration(out.generation)
    IN /\ remote' = rb.remote
       /\ IF rb.escaped
          THEN UNCHANGED <<db, committed>>
          ELSE /\ db' = IF mark = "update failed" THEN committed
                        ELSE RepoUpdate(committed, failed)
               /\ committed' = IF mark = "ok" THEN db' ELSE committed
       /\ last' = [op |-> "process_response", gen |-> g, text |-> r,
                   error |-> IF rb.escaped
                             THEN [kind |-> "Exception", msg |-> "rollback failed",
                                   id |-> NoId, cause |-> ""]
                             ELSE WrappedError(g, out.cause),
                   result |-> NoResult, calls |-> out.calls \o rb.calls,
                   cause |-> out.cause,
                   notion_page_id |-> out.notion_page_id,
                   drive_file_id |-> out.drive_file_id,
                   marked |-> IF rb.escaped THEN "" ELSE mark,
                   fetched |-> db.generations[g].status,
                   durable |-> DurableStatus(g)]
       /\ UNCHANGED <<ids, issued>>

\* faulty variant of AlreadyCompleted: nothing is refused
AlreadyCompleted_Never(gen) == FALSE

\* line 84: a COMPLETED generation is refused
AlreadyCompleted(gen) == gen.status = "COMPLETED"

process_response(g, r, database_id, fail, k, archiveFails, trashFails, mark) ==
    IF ~HasGeneration(db, g)
    THEN ProcessRejected(g, r, ValueError("Generation not found", g))
    ELSE IF AlreadyCompleted(db.generations[g])
    THEN ProcessRejected(g, r, ValueError("Generation already completed", g))
    ELSE IF db.generations[g].topic_id \notin DOMAIN db.topics
    THEN ProcessRejected(g, r, ValueError("Topic not found", db.generations[g].topic_id))
    ELSE IF db.topics[db.generations[g].topic_id].module_id \notin DOMAIN db.modules
    THEN ProcessRejected(g, r, ValueError("Module not found",
                                 db.topics[db.generations[g].topic_id].module_id))
    ELSE /\ Len(remote.pages) < MaxPages
         /\ \E out \in TryBlock(remote, db.generations[g],
                                db.topics[db.generations[g].topic_id],
                                db.modules[db.topics[db.generations[g].topic_id].module_id],
                                r, database_id, fail, k) :
               IF out.ok THEN ProcessSucceeded(g, r, out)
               ELSE ProcessFailed(g, r, out, archiveFails, trashFails, mark)

\* the steps after which the handler holds a page id, and a file id
PageKnown == {"folder_root", "folder_module", "folder_topic", "upload", "update",
              "commit"}

FileKnown == {"update", "commit"}

\* the inputs of one process_response call, each failure choice drawn only
\* where the call can meet it
ProcessResponse ==
    \E g \in GenIds, r \in Responses, database_id \in DatabaseIds,
       fail \in FailPoints, archiveFails \in BOOLEAN, trashFails \in BOOLEAN,
       mark \in MarkOutcomes :
        \E k \in 1 .. (IF fail = "append"
                       THEN NumChunks(validate_blocks(markdown_to_notion_blocks(r))
                                      - PageBlockLimit)
                       ELSE 1) :
            /\ fail = "none" => mark = "ok"
            /\ archiveFails => fail \in PageKnown
            /\ trashFails => fail \in FileKnown
            /\ (~HasGeneration(db, g) \/ AlreadyCompleted(db.generations[g]))
                  => fail = "none"
            /\ process_response(g, r, database_id, fail, k, archiveFails,
                                trashFails, mark)

(***************************************************************************)
(* The caller's conn.commit(): database/connection.py get_connection on    *)
(* leaving the with block, and the tests' fixtures.                        *)
(***************************************************************************)
Commit ==
    /\ committed # db
    /\ committed' = db
    /\ last' = [op |-> "commit", error |-> NoError]
    /\ UNCHANGED <<db, remote, ids, issued>>

(***************************************************************************)
(* Initial state: the seeded database (one module, one topic with the four *)
(* content types uploaded), committed; empty stores.                       *)
(***************************************************************************)
SeedContent ==
    {[id |-> 1, topic_id |-> 1, content_type |-> "LECTURE_PDF",
      file_name |-> "lecture.pdf", uploaded_at |-> 1, is_active |-> TRUE,
      drive_file_id |-> NoId],
     [id |-> 2, topic_id |-> 1, content_type |-> "SOURCE_MATERIAL",
      file_name |-> "source.pdf", uploaded_at |-> 2, is_active |-> TRUE,
      drive_file_id |-> NoId],
     [id |-> 3, topic_id |-> 1, content_type |-> "TUTORIAL_PDF",
      file_name |-> "tutorial.pdf", uploaded_at |-> 3, is_active |-> TRUE,
      drive_file_id |-> NoId],
     [id |-> 4, topic_id |-> 1, content_type |-> "TRANSCRIPT",
      file_name |-> "transcript.txt", uploaded_at |-> 4, is_active |-> TRUE,
      drive_file_id |-> NoId]}

SeedDb ==
    [generations |-> <<>>,
     content |-> SeedContent,
     topics |-> (1 :> [module_id |-> 1, name |-> "Easements"]),
     modules |-> (1 :> [name |-> "Land Law"])]

Init ==
    /\ db = SeedDb
    /\ committed = SeedDb
    /\ remote = [pages |-> <<>>, files |-> <<>>, folders |-> <<>>]
    /\ ids = 0
    /\ issued = <<>>
    /\ last = [op |-> "init", error |-> NoError]
    /\ ops = 0

\* the stages the publish specifications start generations of
StartStages == {"MK1"}

\* one call A on the connection, within the run's budget of calls
Called(A) == ops < MaxOps /\ ops' = ops + 1 /\ A

Next ==
    \/ \E t \in TopicIds, s \in StartStages : Called(start_generation(t, s))
    \/ \E g \in GenIds, r \in Responses : Called(update_generation_response(g, r))
    \/ \E g \in GenIds : Called(mark_generation_failed(g))
    \/ Called(ProcessResponse)
    \/ Called(Commit)

Spec == Init /\ [][Next]_vars

\* start_generation and process_response alone (and the caller's commit)
NextPublish ==
    \/ \E t \in TopicIds, s \in StartStages : Called(start_generation(t, s))
    \/ Called(ProcessResponse)
    \/ Called(Commit)

SpecPublish == Init /\ [][NextPublish]_vars

(***************************************************************************)
(* The stage gate and the version counter.  Content items are written      *)
(* through ContentRepository (create, soft delete), generations are        *)
(* deleted through GenerationRepository.delete; can_generate_stage and     *)
(* get_next_version are called on the current database and answer in last. *)
(***************************************************************************)
\* content items the repository may hold
MaxContent == 5

GateTopics == {1, 2}

TypeIndex(t) ==
    CASE t = "LECTURE_PDF" -> 1
      [] t = "SOURCE_MATERIAL" -> 2
      [] t = "TUTORIAL_PDF" -> 3
      [] t = "TRANSCRIPT" -> 4

\* ContentItem.create: a fresh id, uploaded_at = utcnow(), is_active = True,
\* drive_file_id = None
ContentItemCreate(id, topic, type) ==
    [id |-> id, topic_id |-> topic, content_type |-> type,
     file_name |-> <<type, id>>, uploaded_at |-> id, is_active |-> TRUE,
     drive_file_id |-> NoId]

NextContentId(d) ==
    IF d.content = {} THEN 1
    ELSE (CHOOSE i \in {c.id : c \in d.content} :
              \A c \in d.content : c.id <= i) + 1

\* ContentRepository.create: INSERT
ContentRepoCreate(d, item) == [d EXCEPT !.content = @ \cup {item}]

\* ContentRepository.delete: UPDATE content_items SET is_active = 0 WHERE id = ?
ContentRepoDelete(d, id) ==
    [d EXCEPT !.content =
        {IF c.id = id THEN [c EXCEPT !.is_active = FALSE] ELSE c : c \in @}]

\* GenerationRepository.delete: DELETE FROM generations WHERE id = ?
RepoDelete(d, g) ==
    [d EXCEPT !.generations =
        [h \in DOMAIN d.generations \ {g} |-> d.generations[h]]]

content_create(topic, type) ==
    /\ Cardinality(db.content) < MaxContent
    /\ db' = ContentRepoCreate(db, ContentItemCreate(NextContentId(db), topic, type))
    /\ last' = [op |-> "content_create", item |-> NextContentId(db),
                error |-> NoError]
    /\ UNCHANGED <<committed, remote, ids, issued>>

content_delete(id) ==
    /\ db' = ContentRepoDelete(db, id)
    /\ last' = [op |-> "content_delete", item |-> id, error |-> NoError,
                found |-> \E c \in db.content : c.id = id]
    /\ UNCHANGED <<committed, remote, ids, issued>>

generation_delete(g) ==
    /\ db' = RepoDelete(db, g)
    /\ last' = [op |-> "generation_delete", gen |-> g, error |-> NoError,
                found |-> HasGeneration(db, g)]
    /\ UNCHANGED <<committed, remote, ids, issued>>

\* a call of can_generate_stage: (can_generate, missing_requirements)
CanGenerateStage(topic, stage) ==
    /\ last' = [op |-> "can_generate_stage", topic |-> topic, stage |-> stage,
                error |-> NoError,
                allowed |-> Len(can_generate_stage(db, topic, stage)) = 0,
                missing |-> can_generate_stage(db, topic, stage)]
    /\ UNCHANGED <<db, committed, remote, ids, issued>>

\* a call of get_next_version
GetNextVersion(topic, stage) ==
    /\ last' = [op |-> "get_next_version", topic |-> topic, stage |-> stage,
                error |-> NoError,
                version |-> get_next_version(db, topic, stage)]
    /\ UNCHANGED <<db, committed, remote, ids, issued>>

\* the items of a topic that has one active item of each type in types
Uploaded(topic, types) ==
    {ContentItemCreate(4 * (topic - 1) + TypeIndex(t), topic, t) : t \in types}

GateDb(content) ==
    [generations |-> <<>>,
     content |-> content,
     topics |-> (1 :> [module_id |-> 1, name |-> "Easements"])
                @@ (2 :> [module_id |-> 1, name |-> "Covenants"]),
     modules |-> (1 :> [name |-> "Land Law"])]

\* two topics; the first with any set of types uploaded, the second with none
\* or all of them
InitGate ==
    /\ \E types \in SUBSET ContentTypes, other \in {{}, ContentTypes} :
          /\ db = GateDb(Uploaded(1, types) \cup Uploaded(2, other))
          /\ committed = db
    /\ remote = [pages |-> <<>>, files |-> <<>>, folders |-> <<>>]
    /\ ids = 0
    /\ issued = <<>>
    /\ last = [op |-> "init", error |-> NoError]
    /\ ops = 0

GateResponses == {[tag |-> "a", paras |-> 2]}

\* calls made in one run of the stage-gate specification
MaxGateOps == 3

CalledGate(A) == ops < MaxGateOps /\ ops' = ops + 1 /\ A

NextGate ==
    \/ \E t \in GateTopics, ty \in ContentTypes : CalledGate(content_create(t, ty))
    \/ \E c \in db.content : CalledGate(content_delete(c.id))
    \/ \E t \in GateTopics, s \in Stages : CalledGate(start_generation(t, s))
    \/ \E g \in GenIds, r \in GateResponses : CalledGate(update_generation_response(g, r))
    \/ \E g \in GenIds : CalledGate(mark_generation_failed(g))
    \/ \E t \in GateTopics, s \in Stages : CalledGate(CanGenerateStage(t, s))

SpecGate == InitGate /\ [][NextGate]_vars

\* both topics with every type uploaded
InitVersions ==
    /\ db = GateDb(Uploaded(1, ContentTypes) \cup Uploaded(2, ContentTypes))
    /\ committed = db
    /\ remote = [pages |-> <<>>, files |-> <<>>, folders |-> <<>>]
    /\ ids = 0
    /\ issued = <<>>
    /\ last = [op |-> "init", error |-> NoError]
    /\ ops = 0

NextVersions ==
    \/ \E t \in GateTopics, s \in Stages : Called(start_generation(t, s))
    \/ \E g \in GenIds, r \in GateResponses : Called(update_generation_response(g, r))
    \/ \E g \in GenIds : Called(mark_generation_failed(g))
    \/ \E g \in GenIds : Called(generation_delete(g))
    \/ \E t \in GateTopics, s \in Stages : Called(GetNextVersion(t, s))

SpecVersions == InitVersions /\ [][NextVersions]_vars

\* start_generation of two stages of the seeded topic, with status updates,
\* publishes and the caller's commit in between
NextStart ==
    \/ \E t \in TopicIds, s \in {"MK1", "MK2"} : CalledGate(start_generation(t, s))
    \/ \E g \in GenIds, r \in GateResponses : CalledGate(update_generation_response(g, r))
    \/ \E g \in GenIds : CalledGate(mark_generation_failed(g))
    \/ CalledGate(ProcessResponse)
    \/ CalledGate(Commit)

SpecStart == Init /\ [][NextStart]_vars

(***************************************************************************)
(* MK3 generation.  The topic has every type uploaded and two PENDING MK2  *)
(* generations, versions 1 and 2, as two start_generation calls and a      *)
(* commit leave them; their uuids lie outside the ones drawn later.        *)
(***************************************************************************)
PendingMK2Ids == <<MaxGens + 1, MaxGens + 2>>

\* the record start_generation(1, MK2) creates on database d
StartedMK2(d, id) ==
    GenerationCreate(id, 1, "MK2", get_next_version(d, 1, "MK2"),
                     build_prompt("MK2", d.topics[1].name,
                                  d.modules[d.topics[1].module_id].name,
                                  FileNames(get_for_topic(d, 1)), NoText).prompt,
                     NoId)

InitMK3 ==
    /\ LET d0 == GateDb(Uploaded(1, ContentTypes))
           d1 == RepoCreate(d0, StartedMK2(d0, PendingMK2Ids[1]))
           d2 == RepoCreate(d1, StartedMK2(d1, PendingMK2Ids[2]))
       IN /\ db = d2
          /\ committed = d2
    /\ remote = [pages |-> <<>>, files |-> <<>>, folders |-> <<>>]
    /\ ids = 0
    /\ issued = [i \in 1 .. 2 |-> [topic_id |-> 1, stage |-> "MK2", version |-> i,
                                   id |-> PendingMK2Ids[i]]]
    /\ last = [op |-> "init", error |-> NoError]
    /\ ops = 0

\* the texts update_generation_response is given: two documents and ""
MK2Responses == Responses \cup {EmptyText}

NextMK3 ==
    \/ \E s \in {"MK2", "MK3"} : CalledGate(start_generation(1, s))
    \/ \E g \in DOMAIN db.generations \cup GenIds, r \in MK2Responses :
          CalledGate(update_generation_response(g, r))
    \/ \E g \in DOMAIN db.generations : CalledGate(mark_generation_failed(g))
    \/ \E g \in DOMAIN db.generations : CalledGate(generation_delete(g))

SpecMK3 == InitMK3 /\ [][NextMK3]_vars

(***************************************************************************)
(* The folder step of a publish (output_service.py, lines 127-137) on its  *)
(* own: root, module folder, topic folder, for module and topic names the  *)
(* user has chosen.  last holds the three ids answered and the number of   *)
(* folders the run created.                                                *)
(***************************************************************************)
ModuleNames == {"Land Law", "Equity", DRIVE_ROOT_FOLDER}

TopicNames == {"Easements", "Covenants", DRIVE_ROOT_FOLDER}

EnsureFoldersRun(module_name, topic_name) ==
    /\ \E r \in EnsureFolders(remote.folders, module_name, topic_name, "none") :
          /\ remote' = [remote EXCEPT !.folders = r.folders]
          /\ last' = [op |-> "ensure_folders", error |-> NoError,
                      module |-> module_name, topic |-> topic_name,
                      root_id |-> r.root_id,
                      module_folder_id |-> r.module_folder_id,
                      topic_folder_id |-> r.id,
                      created |-> Len(r.folders) - Len(remote.folders)]
    /\ UNCHANGED <<db, committed, ids, issued>>

NextFolders ==
    \E mn \in ModuleNames, tn \in TopicNames : CalledGate(EnsureFoldersRun(mn, tn))

SpecFolders == Init /\ [][NextFolders]_vars

(***************************************************************************)
(* The converters and the prompt builder, one call on the initial state    *)
(* for each input.                                                         *)
(***************************************************************************)
Once(A) == ops = 0 /\ ops' = 1 /\ A

\* create_page with n blocks, numbered 1 to n, none of its calls failing
CreatePageRun(n) ==
    LET content_blocks == [i \in 1 .. n |-> i]
        page == create_page(remote.pages, "notion-db", "title", "properties", n,
                            FALSE, 0)
    IN /\ remote' = [remote EXCEPT !.pages = page.pages]
       /\ last' = [op |-> "create_page", error |-> NoError,
                   content_blocks |-> content_blocks,
                   children |-> SentChildren(content_blocks),
                   calls |-> page.calls, id |-> page.id]
       /\ UNCHANGED <<db, committed, ids, issued>>

\* validate_blocks on one block whose text has n characters
ValidateBlocksRun(n) ==
    /\ last' = [op |-> "validate_blocks", error |-> NoError, chars |-> n,
                content |-> TruncateContent(n)]
    /\ UNCHANGED <<db, committed, remote, ids, issued>>

PromptTexts == Responses \cup {NoText, EmptyText}

\* build_prompt for the seeded topic
BuildPromptRun(stage, previous_content) ==
    LET built == build_prompt(stage, db.topics[1].name, db.modules[1].name,
                              FileNames(get_for_topic(db, 1)), previous_content)
    IN /\ last' = [op |-> "build_prompt", stage |-> stage,
                   previous_content |-> previous_content,
                   error |-> built.error, prompt |-> built.prompt]
       /\ UNCHANGED <<db, committed, remote, ids, issued>>

NextPure ==
    \/ \E n \in 0 .. MaxBlocks : Once(CreatePageRun(n))
    \/ \E n \in 0 .. MaxChars : Once(ValidateBlocksRun(n))
    \/ \E s \in Stages, t \in PromptTexts : Once(BuildPromptRun(s, t))

SpecPure == Init /\ [][NextPure]_vars

(***************************************************************************)
(* services/content_service.py: upload_content and delete_content, with a  *)
(* Drive client configured.                                                *)
(***************************************************************************)
\* upload_content of a file whose name ends in .pdf (pdf = TRUE) or not;
\* upload_fails: upload_file raises, and nothing is written locally
upload_content(pdf, topic, upload_fails) ==
    /\ Cardinality(db.content) < MaxContent
    /\ \E fo \in EnsureFolders(remote.folders,
                                db.modules[db.topics[topic].module_id].name,
                                db.topics[topic].name, "none") :
          LET id == NextContentId(db)
              type == IF pdf THEN "LECTURE_PDF" ELSE "TRANSCRIPT"
              up == upload_file(remote.files, <<type, id>>, <<type, id>>, fo.id,
                                upload_fails)
              item == [ContentItemCreate(id, topic, type) EXCEPT
                          !.drive_file_id = up.id]
          IN IF up.raised
             THEN /\ remote' = [remote EXCEPT !.folders = fo.folders]
                  /\ last' = [op |-> "upload_content", item |-> NoId,
                              error |-> [kind |-> "Exception", msg |-> "upload failed",
                                         id |-> NoId, cause |-> ""]]
                  /\ UNCHANGED db
             ELSE /\ remote' = [remote EXCEPT !.folders = fo.folders,
                                              !.files = up.files]
                  /\ db' = ContentRepoCreate(db, item)
                  /\ last' = [op |-> "upload_content", item |-> id,
                              error |-> NoError]
    /\ UNCHANGED <<committed, ids, issued>>

\* what the call of DriveClient.delete_file does in delete_content: the file
\* is trashed, or delete_file answers False, or it raises (authenticate)
TrashOutcomes == {"trashed", "false", "raises"}

\* faulty variant of delete_content: a failure of the remote call ends it
delete_content_StopsOnFailure(content_id, outcome) ==
    /\ IF ~\E c \in db.content : c.id = content_id
       THEN /\ last' = [op |-> "delete_content", item |-> content_id,
                        outcome |-> "none", result |-> FALSE, error |-> NoError]
            /\ UNCHANGED <<db, remote>>
       ELSE LET item == CHOOSE c \in db.content : c.id = content_id
                called == item.drive_file_id # NoId
            IN /\ remote' = [remote EXCEPT !.files =
                                IF called
                                THEN delete_file(@, item.drive_file_id,
                                                 outcome # "trashed")
                                ELSE @]
               /\ db' = IF called /\ outcome # "trashed" THEN db
                        ELSE ContentRepoDelete(db, content_id)
               /\ last' = [op |-> "delete_content", item |-> content_id,
                           outcome |-> IF called THEN outcome ELSE "none",
                           result |-> ~(called /\ outcome # "trashed"),
                           error |-> NoError]
    /\ UNCHANGED <<committed, ids, issued>>

\* delete_content, lines 83-96 (no commit): False for an unknown id; else the
\* remote trash when the item has a drive_file_id, its failure caught, then
\* the soft delete, whose rowcount > 0 is the answer
delete_content(content_id, outcome) ==
    /\ IF ~\E c \in db.content : c.id = content_id
       THEN /\ last' = [op |-> "delete_content", item |-> content_id,
                        outcome |-> "none", result |-> FALSE, error |-> NoError]
            /\ UNCHANGED <<db, remote>>
       ELSE LET item == CHOOSE c \in db.content : c.id = content_id
                called == item.drive_file_id # NoId
            IN /\ remote' = [remote EXCEPT !.files =
                                IF called
                                THEN delete_file(@, item.drive_file_id,
                                                 outcome # "trashed")
                                ELSE @]
               /\ db' = ContentRepoDelete(db, content_id)
               /\ last' = [op |-> "delete_content", item |-> content_id,
                           outcome |-> IF called THEN outcome ELSE "none",
                           result |-> TRUE, error |-> NoError]
    /\ UNCHANGED <<committed, ids, issued>>

InitContent ==
    /\ db = GateDb({})
    /\ committed = db
    /\ remote = [pages |-> <<>>, files |-> <<>>, folders |-> <<>>]
    /\ ids = 0
    /\ issued = <<>>
    /\ last = [op |-> "init", error |-> NoError]
    /\ ops = 0

NextContent ==
    \/ \E pdf \in BOOLEAN, t \in GateTopics, f \in BOOLEAN :
          CalledGate(upload_content(pdf, t, f))
    \/ \E c \in 1 .. MaxContent, o \in TrashOutcomes :
          CalledGate(delete_content(c, o))

SpecContent == InitContent /\ [][NextContent]_vars

(***************************************************************************)
(* Generations and content whose topic or module record is gone: topics    *)
(* and modules are deleted through their repositories.  The first topic    *)
(* has every type uploaded, the second nothing.                            *)
(***************************************************************************)
\* TopicRepository.delete: DELETE FROM topics WHERE id = ?
TopicRepoDelete(d, t) ==
    [d EXCEPT !.topics = [x \in DOMAIN d.topics \ {t} |-> d.topics[x]]]

\* ModuleRepository.delete: DELETE FROM modules WHERE id = ?
ModuleRepoDelete(d, m) ==
    [d EXCEPT !.modules = [x \in DOMAIN d.modules \ {m} |-> d.modules[x]]]

topic_delete(t) ==
    /\ db' = TopicRepoDelete(db, t)
    /\ last' = [op |-> "topic_delete", topic |-> t, error |-> NoError,
                found |-> t \in DOMAIN db.topics]
    /\ UNCHANGED <<committed, remote, ids, issued>>

module_delete(m) ==
    /\ db' = ModuleRepoDelete(db, m)
    /\ last' = [op |-> "module_delete", module |-> m, error |-> NoError,
                found |-> m \in DOMAIN db.modules]
    /\ UNCHANGED <<committed, remote, ids, issued>>

InitOrphans ==
    /\ db = GateDb(Uploaded(1, ContentTypes))
    /\ committed = db
    /\ remote = [pages |-> <<>>, files |-> <<>>, folders |-> <<>>]
    /\ ids = 0
    /\ issued = <<>>
    /\ last = [op |-> "init", error |-> NoError]
    /\ ops = 0

NextOrphans ==
    \/ \E t \in GateTopics, s \in StartStages : Called(start_generation(t, s))
    \/ \E t \in GateTopics : Called(topic_delete(t))
    \/ \E m \in {1} : Called(module_delete(m))
    \/ Called(ProcessResponse)
    \/ Called(Commit)

SpecOrphans == InitOrphans /\ [][NextOrphans]_vars

(***************************************************************************)
(* Properties.  A step of a behaviour is one call; last' describes it, db  *)
(* and committed are the database before it, db' and committed' after it.  *)
(***************************************************************************)
PublishStep == ops' # ops /\ last'.op = "process_response"

\* process_response raised from inside its try block (the publish steps)
PublishFailedStep == PublishStep /\ last'.error.kind = "Exception"

\* every compensating call of the list succeeded
CompensationsOk(calls) ==
    \A i \in 1 .. Len(calls) :
        calls[i].call \in {"pages.update", "delete_file"} => calls[i].ok

HasCall(calls, name) == \E i \in 1 .. Len(calls) : calls[i].call = name

ArtifactsUnset(row) ==
    /\ row.response_content = NoText
    /\ row.notion_page_id = NoId /\ row.notion_url = NoUrl
    /\ row.drive_backup_id = NoId /\ row.drive_backup_url = NoUrl

ArtifactsSet(row) ==
    /\ row.response_content # NoText
    /\ row.notion_page_id # NoId /\ row.notion_url # NoUrl
    /\ row.drive_backup_id # NoId /\ row.drive_backup_url # NoUrl

SameArtifacts(a, b) ==
    /\ a.response_content = b.response_content
    /\ a.notion_page_id = b.notion_page_id /\ a.notion_url = b.notion_url
    /\ a.drive_backup_id = b.drive_backup_id
    /\ a.drive_backup_url = b.drive_backup_url

\* the committed status of g changes from s to t in this step
StatusChange(g, s, t) ==
    /\ g \in DOMAIN committed.generations
    /\ g \in DOMAIN committed'.generations
    /\ committed.generations[g].status = s
    /\ committed'.generations[g].status = t

\* C1 as stated: the persisted status of a generation changes only by
\* PENDING->COMPLETED, PENDING->FAILED or COMPLETED->FAILED, under any sequence
\* of start_generation, update_generation_response, mark_generation_failed and
\* process_response calls.
C1_OnlyThreeTransitions ==
    [][\A g \in GenIds : \A s, t \in GenerationStatus :
          StatusChange(g, s, t) /\ s # t =>
              <<s, t>> \in {<<"PENDING", "COMPLETED">>, <<"PENDING", "FAILED">>,
                            <<"COMPLETED", "FAILED">>}]_vars

\* C1 amended: the persisted (committed) status of a generation changes only by
\* PENDING->COMPLETED, PENDING->FAILED, COMPLETED->FAILED or FAILED->COMPLETED
\* (a retried publish, or update_generation_response, on a FAILED generation);
\* it never changes to PENDING.
C1_StatusTransitions ==
    [][\A g \in GenIds : \A s, t \in GenerationStatus :
          StatusChange(g, s, t) /\ s # t =>
              <<s, t>> \in {<<"PENDING", "COMPLETED">>, <<"PENDING", "FAILED">>,
                            <<"COMPLETED", "FAILED">>, <<"FAILED", "COMPLETED">>}]_vars

\* a publish of a FAILED generation has succeeded and is committed
C1_Witness ==
    /\ last.op = "process_response"
    /\ last.durable = "FAILED"
    /\ last.error = NoError
    /\ committed.generations[last.gen].status = "COMPLETED"

\* C2: when process_response created the page and upload_file then throws (the
\* archive call and the write of FAILED working), the created page is archived,
\* the generation's persisted status is FAILED and its drive_backup_id and
\* drive_backup_url are unset.
C2_UploadFailureRollsBack ==
    [][(/\ PublishFailedStep
        /\ last'.cause = "upload_file failed"
        /\ CompensationsOk(last'.calls)
        /\ last'.marked = "ok")
       => /\ remote'.pages[last'.notion_page_id].archived
          /\ HasGeneration(db', last'.gen)
          /\ db'.generations[last'.gen].status = "FAILED"
          /\ db'.generations[last'.gen].drive_backup_id = NoId
          /\ db'.generations[last'.gen].drive_backup_url = NoUrl]_vars

\* C3: when process_response raises from inside its publish steps (the write of
\* FAILED working), re-fetching the generation by id afterwards returns a record,
\* and its status is FAILED.
C3_FailedRecordRemains ==
    [][(PublishFailedStep /\ last'.marked = "ok")
       => /\ HasGeneration(db', last'.gen)
          /\ db'.generations[last'.gen].status = "FAILED"]_vars

\* C4: after a failed process_response whose compensating calls succeeded, every
\* page created during the attempt is archived and every file uploaded during
\* the attempt is trashed, whichever step failed.
C4_NoArtifactLeftLive ==
    [][(PublishFailedStep /\ CompensationsOk(last'.calls))
       => /\ \A p \in (Len(remote.pages) + 1) .. Len(remote'.pages) :
                 remote'.pages[p].archived
          /\ \A f \in (Len(remote.files) + 1) .. Len(remote'.files) :
                 remote'.files[f].trashed]_vars

\* C5: in every state reachable by start_generation and process_response calls,
\* each persisted generation has response text, page id/url and file id/url
\* either all unset or all set.
C5_ArtifactsAllOrNone ==
    \A d \in {db, committed} : \A g \in DOMAIN d.generations :
        ArtifactsUnset(d.generations[g]) \/ ArtifactsSet(d.generations[g])

\* a failed publish left a FAILED record holding a text and all references
C5_Witness ==
    \E g \in DOMAIN committed.generations :
        /\ committed.generations[g].status = "FAILED"
        /\ ArtifactsSet(committed.generations[g])

\* C6: when process_response fails at any step, the write that marks the
\* generation FAILED changes the status only: response text, page id/url and
\* file id/url of the persisted record are as before the attempt.
C6_FailedWriteKeepsArtifacts ==
    [][(/\ PublishFailedStep
        /\ HasGeneration(committed, last'.gen)
        /\ committed.generations[last'.gen] = db.generations[last'.gen])
       => /\ HasGeneration(db', last'.gen)
          /\ SameArtifacts(db'.generations[last'.gen], db.generations[last'.gen])
          /\ SameArtifacts(committed'.generations[last'.gen],
                           committed.generations[last'.gen])]_vars

\* C7: process_response on a generation whose persisted status is COMPLETED
\* raises the 'already completed' error, makes no document-store or file-store
\* call and leaves the record (and everything else) unchanged.
C7_CompletedIsRefused ==
    [][(/\ PublishStep
        /\ HasGeneration(db, last'.gen)
        /\ db.generations[last'.gen].status = "COMPLETED")
       => /\ last'.error = ValueError("Generation already completed", last'.gen)
          /\ last'.calls = <<>>
          /\ remote' = remote
          /\ db' = db
          /\ committed' = committed]_vars

C7_Witness ==
    /\ last.op = "process_response"
    /\ last.fetched = "COMPLETED"
    /\ last.error.msg = "Generation already completed"

\* C8: when every step of process_response succeeds, the result carries the
\* input id and the urls the two stores returned, and the re-fetched generation
\* is COMPLETED with the input text and the ids and urls of the page and file
\* created by this call.
C8_SuccessfulPublish ==
    [][(PublishStep /\ last'.error = NoError)
       => LET g == last'.gen
              p == Len(remote.pages) + 1
              f == Len(remote.files) + 1
          IN /\ last'.result = [notion_url |-> NotionUrl(p), drive_url |-> DriveUrl(f),
                                generation_id |-> g]
             /\ Len(remote'.pages) = p /\ ~remote'.pages[p].archived
             /\ Len(remote'.files) = f /\ ~remote'.files[f].trashed
             /\ \A d \in {db', committed'} :
                   /\ HasGeneration(d, g)
                   /\ d.generations[g].status = "COMPLETED"
                   /\ d.generations[g].response_content = last'.text
                   /\ d.generations[g].notion_page_id = p
                   /\ d.generations[g].notion_url = NotionUrl(p)
                   /\ d.generations[g].drive_backup_id = f
                   /\ d.generations[g].drive_backup_url = DriveUrl(f)
                   /\ ArtifactsSet(d.generations[g])]_vars

C8_Witness ==
    /\ last.op = "process_response"
    /\ last.error = NoError
    /\ last.result.generation_id = last.gen

\* C9: after a failed process_response (the write of FAILED working), the next
\* process_response call on the same generation is accepted (it raises no
\* precondition error), and if all its steps succeed the generation ends
\* COMPLETED with the retry's text and the retry's artifacts.
C9_RetryAfterFailure ==
    [][(/\ last.op = "process_response"
        /\ last.error.kind = "Exception"
        /\ last.marked = "ok"
        /\ PublishStep
        /\ last'.gen = last.gen)
       => /\ last'.error.kind # "ValueError"
          /\ last'.error = NoError =>
                LET row == db'.generations[last'.gen]
                IN /\ row.status = "COMPLETED"
                   /\ row.response_content = last'.text
                   /\ row.notion_page_id = Len(remote'.pages)
                   /\ row.notion_page_id > Len(remote.pages)
                   /\ row.drive_backup_id = Len(remote'.files)
                   /\ row.drive_backup_id > Len(remote.files)
                   /\ committed'.generations[last'.gen] = row]_vars

\* C10: in the rollback of a failed process_response both compensations are
\* attempted whenever their artifact is known (a failed archive call does not
\* stop the trash call), none of their failures escapes, and the error raised
\* is the wrapping error naming the generation id and carrying the original
\* failure's message.
C10_RollbackNeverMasks ==
    (last.op = "process_response" /\ last.cause # "")
    => /\ last.error = WrappedError(last.gen, last.cause)
       /\ last.notion_page_id # NoId => HasCall(last.calls, "pages.update")
       /\ last.drive_file_id # NoId => HasCall(last.calls, "delete_file")

\* the archive call failed, the trash call was still made, the wrapper raised
C10_Witness ==
    /\ last.op = "process_response"
    /\ last.error = WrappedError(last.gen, "update failed")
    /\ \E i \in 1 .. Len(last.calls) : last.calls[i] = Call("pages.update", FALSE)
    /\ \E i \in 1 .. Len(last.calls) : last.calls[i] = Call("delete_file", TRUE)
    /\ remote.files[last.drive_file_id].trashed
\* the position of a step in process_response's try block (lines 100-162);
\* the compensations of _rollback come after all of them
StepRank(name) ==
    CASE name = "pages.create" -> 1
      [] name = "blocks.children.append" -> 2
      [] name = "get_or_create_folder" -> 3
      [] name = "upload_file" -> 4
      [] name = "generation_repo.update" -> 5
      [] name = "conn.commit" -> 6
      [] name = "pages.update" -> 7
      [] name = "delete_file" -> 8

Repeatable == {"blocks.children.append", "get_or_create_folder"}

\* C11: within one process_response call the steps are taken in the order page
\* creation, folder get-or-create (at most three), file upload, local update,
\* commit, and nothing but the compensations follows a failed step; the
\* committed status becomes COMPLETED only in a call whose page creation and
\* upload both succeeded before the update and the commit; when page creation
\* fails no upload is attempted.
C11_StepsInOrder ==
    [][PublishStep =>
        LET c == last'.calls
            n == Len(c)
        IN /\ \A i, j \in 1 .. n :
                 i < j => /\ StepRank(c[i].call) <= StepRank(c[j].call)
                          /\ c[i].call = c[j].call => c[i].call \in Repeatable
                          /\ ~c[i].ok => StepRank(c[j].call) >= 7
           /\ Cardinality({i \in 1 .. n : c[i].call = "get_or_create_folder"}) <= 3
           /\ (\E s \in GenerationStatus \ {"COMPLETED"} :
                   StatusChange(last'.gen, s, "COMPLETED"))
              => /\ \A m \in 1 .. n : c[m].ok
                 /\ \A name \in {"pages.create", "upload_file",
                                  "generation_repo.update", "conn.commit"} :
                       HasCall(c, name)
                 /\ c[n].call = "conn.commit"
           /\ (\E i \in 1 .. n :
                   c[i].call \in {"pages.create", "blocks.children.append"} /\ ~c[i].ok)
              => ~HasCall(c, "upload_file")]_vars

\* a call on a committed PENDING generation took every step up to the upload,
\* which failed, and then archived the page
C11_Witness ==
    /\ last.op = "process_response"
    /\ \E i \in 1 .. Len(last.calls) : last.calls[i] = Call("upload_file", FALSE)
    /\ Len(last.calls) = 6
    /\ last.calls[6] = Call("pages.update", TRUE)
    /\ last.durable = "PENDING"
\* start_generation returned a new generation in this step
StartedStep ==
    /\ ops' # ops
    /\ last'.op = "start_generation"
    /\ last'.error = NoError

VersionsDistinct(d) ==
    \A g, h \in DOMAIN d.generations :
        (/\ g # h
         /\ d.generations[g].topic_id = d.generations[h].topic_id
         /\ d.generations[g].stage = d.generations[h].stage)
        => d.generations[g].version # d.generations[h].version

\* C12: under start_generation calls interleaved with status updates and
\* publishes, no two generations of one topic and stage have the same version
\* and every version is a positive integer; a generation started for a pair
\* that has no generation gets version 1, and the second of two consecutive
\* start_generation calls for one pair gets the first one's version plus one
\* (1 then 2 for a new pair).
C12_VersionsUniquePositive ==
    [][/\ \A d \in {db', committed'} :
            /\ VersionsDistinct(d)
            /\ \A g \in DOMAIN d.generations :
                  d.generations[g].version \in Nat \ {0}
       /\ StartedStep =>
            /\ GensOf(db, last'.topic, last'.stage) = {}
                  => db'.generations[last'.gen].version = 1
            /\ (/\ last.op = "start_generation"
                /\ last.error = NoError
                /\ last.topic = last'.topic
                /\ last.stage = last'.stage)
               => db'.generations[last'.gen].version
                     = db.generations[last.gen].version + 1]_vars

\* the second of two consecutive start_generation calls for one pair returned
\* version 2, the first generation having version 1
C12_Witness ==
    /\ last.op = "start_generation"
    /\ last.error = NoError
    /\ db.generations[last.gen].version = 2
    /\ \E g \in GensOf(db, last.topic, last.stage) : db.generations[g].version = 1
\* C13: a version handed out to a generation of a topic and stage is never
\* handed out again to a later generation of that pair, and the versions handed
\* out for a pair never decrease, whatever was done in between, hard deletion
\* of generations included.
C13_VersionsNeverReused ==
    \A i, j \in 1 .. Len(issued) :
        (/\ i < j
         /\ issued[i].topic_id = issued[j].topic_id
         /\ issued[i].stage = issued[j].stage)
        => issued[i].version < issued[j].version
\* C14: get_next_version(topic, stage) answers 1 when no generation of exactly
\* that topic and stage exists, and otherwise one more than the largest version
\* among the generations of that pair, whatever their status; generations of
\* other stages or other topics do not count.
C14_NextVersion ==
    last.op = "get_next_version" =>
        LET pair == {g \in DOMAIN db.generations :
                        /\ db.generations[g].topic_id = last.topic
                        /\ db.generations[g].stage = last.stage}
        IN /\ pair = {} => last.version = 1
           /\ pair # {} =>
                 /\ \E g \in pair : last.version = db.generations[g].version + 1
                 /\ \A g \in pair : last.version > db.generations[g].version

\* MK1 has versions 1 and 2 and the next version of MK2 of that topic is 1
C14_Witness ==
    /\ last.op = "get_next_version"
    /\ last.stage = "MK2"
    /\ last.version = 1
    /\ \E g, h \in DOMAIN db.generations :
          /\ db.generations[g].topic_id = last.topic
          /\ db.generations[h].topic_id = last.topic
          /\ db.generations[g].stage = "MK1" /\ db.generations[g].version = 1
          /\ db.generations[h].stage = "MK1" /\ db.generations[h].version = 2
\* the content types of the topic's items with is_active = TRUE
ActiveTypes(topic) ==
    {c.content_type : c \in {x \in db.content : x.topic_id = topic /\ x.is_active}}

\* the topic has a COMPLETED generation of stage MK2
HasCompletedMK2(topic) ==
    \E g \in DOMAIN db.generations :
        /\ db.generations[g].topic_id = topic
        /\ db.generations[g].stage = "MK2"
        /\ db.generations[g].status = "COMPLETED"

\* C15: can_generate_stage answers allowed exactly when its reasons list is
\* empty, and the list is empty exactly when every type the stage requires
\* (MK1: lecture; MK2: lecture, source material, tutorial; MK3: those and the
\* transcript) is among the topic's active content and, for MK3, the topic has
\* a COMPLETED MK2 generation.
C15_AllowedIffRequirementsMet ==
    last.op = "can_generate_stage" =>
        LET need == CASE last.stage = "MK1" -> {"LECTURE_PDF"}
                      [] last.stage = "MK2" ->
                            {"LECTURE_PDF", "SOURCE_MATERIAL", "TUTORIAL_PDF"}
                      [] last.stage = "MK3" ->
                            {"LECTURE_PDF", "SOURCE_MATERIAL", "TUTORIAL_PDF",
                             "TRANSCRIPT"}
        IN /\ last.allowed <=> last.missing = <<>>
           /\ last.missing = <<>> <=>
                 /\ need \subseteq ActiveTypes(last.topic)
                 /\ last.stage = "MK3" => HasCompletedMK2(last.topic)

\* MK3 is allowed: all four types active and an MK2 generation COMPLETED
C15_Witness ==
    /\ last.op = "can_generate_stage"
    /\ last.stage = "MK3"
    /\ last.allowed
    /\ HasCompletedMK2(last.topic)
\* the reason can_generate_stage gives for a missing content type
ReasonFor(type) ==
    CASE type = "LECTURE_PDF" -> "Missing Lecture Pdf"
      [] type = "SOURCE_MATERIAL" -> "Missing Source Material"
      [] type = "TUTORIAL_PDF" -> "Missing Tutorial Pdf"
      [] type = "TRANSCRIPT" -> "Missing Transcript"

RequiredTypes(stage) ==
    CASE stage = "MK1" -> {"LECTURE_PDF"}
      [] stage = "MK2" -> {"LECTURE_PDF", "SOURCE_MATERIAL", "TUTORIAL_PDF"}
      [] stage = "MK3" -> {"LECTURE_PDF", "SOURCE_MATERIAL", "TUTORIAL_PDF",
                           "TRANSCRIPT"}

InList(list, x) == \E i \in 1 .. Len(list) : list[i] = x

\* C16: under any sequence of content uploads and soft deletes, a soft-deleted
\* item stays in the database and stays inactive, and can_generate_stage
\* reports a required type missing exactly when the topic has no active item
\* of it: soft-deleted items do not count, so a topic all of whose items of a
\* required type are soft-deleted (or a topic without active content, for MK1)
\* is disallowed with that type's reason.
C16_OnlyActiveContentCounts ==
    [][/\ \A c \in db.content : ~c.is_active => c \in db'.content
       /\ (ops' # ops /\ last'.op = "can_generate_stage") =>
             /\ \A ty \in RequiredTypes(last'.stage) :
                   InList(last'.missing, ReasonFor(ty))
                      <=> ty \notin ActiveTypes(last'.topic)
             /\ (\E ty \in RequiredTypes(last'.stage) :
                     ty \notin ActiveTypes(last'.topic)) => ~last'.allowed]_vars

\* MK1 is refused for a topic whose only lecture item is soft-deleted
C16_Witness ==
    /\ last.op = "can_generate_stage"
    /\ last.stage = "MK1"
    /\ ~last.allowed
    /\ last.missing = <<"Missing Lecture Pdf">>
    /\ \E c \in db.content :
          /\ c.topic_id = last.topic
          /\ c.content_type = "LECTURE_PDF"
          /\ ~c.is_active
\* C17: the reasons of can_generate_stage(topic, MK3) contain 'Missing
\* completed MK2 generation' exactly when the topic has no MK2 generation with
\* status COMPLETED (PENDING and FAILED ones, and those of other topics, do not
\* count), whichever content types are uploaded.
C17_CompletedMK2Reason ==
    (last.op = "can_generate_stage" /\ last.stage = "MK3") =>
        (InList(last.missing, "Missing completed MK2 generation")
            <=> ~HasCompletedMK2(last.topic))

\* all four types are active and another topic has a COMPLETED MK2 generation,
\* yet MK3 is refused with the MK2 reason alone
C17_Witness ==
    /\ last.op = "can_generate_stage"
    /\ last.stage = "MK3"
    /\ last.missing = <<"Missing completed MK2 generation">>
    /\ ActiveTypes(last.topic) = ContentTypes
    /\ \E t \in GateTopics \ {last.topic} : HasCompletedMK2(t)
\* the place of a reason in the fixed order: lecture, source material,
\* tutorial, transcript, then the MK2 reason
ReasonRank(reason) ==
    CASE reason = "Missing Lecture Pdf" -> 1
      [] reason = "Missing Source Material" -> 2
      [] reason = "Missing Tutorial Pdf" -> 3
      [] reason = "Missing Transcript" -> 4
      [] reason = "Missing completed MK2 generation" -> 5
      [] OTHER -> 0

\* C18: the reasons list of can_generate_stage holds exactly one entry for each
\* required type that has no active item and none for a type that has one, in
\* the order lecture, source material, tutorial, transcript, followed by the
\* MK2 reason when it applies, without duplicates; with only a lecture
\* uploaded MK1 answers (True, []) and MK2 answers exactly
\* ['Missing Source Material', 'Missing Tutorial Pdf'].
C18_ReasonsInOrder ==
    last.op = "can_generate_stage" =>
        LET m == last.missing
            absent == RequiredTypes(last.stage) \ ActiveTypes(last.topic)
            mk2 == last.stage = "MK3" /\ ~HasCompletedMK2(last.topic)
        IN /\ \A i, j \in 1 .. Len(m) :
                 i < j => ReasonRank(m[i]) < ReasonRank(m[j])
           /\ \A i \in 1 .. Len(m) :
                 \/ \E ty \in absent : m[i] = ReasonFor(ty)
                 \/ mk2 /\ m[i] = "Missing completed MK2 generation"
           /\ \A ty \in absent : InList(m, ReasonFor(ty))
           /\ mk2 => InList(m, "Missing completed MK2 generation")
           /\ Len(m) = Cardinality(absent) + (IF mk2 THEN 1 ELSE 0)
           /\ ActiveTypes(last.topic) = {"LECTURE_PDF"} =>
                 /\ last.stage = "MK1" => last.allowed /\ m = <<>>
                 /\ last.stage = "MK2" =>
                       /\ ~last.allowed
                       /\ m = <<"Missing Source Material", "Missing Tutorial Pdf">>

\* MK3 asked for a topic with only a lecture and no completed MK2: three file
\* reasons in order, then the MK2 reason
C18_Witness ==
    /\ last.op = "can_generate_stage"
    /\ last.stage = "MK3"
    /\ ActiveTypes(last.topic) = {"LECTURE_PDF"}
    /\ last.missing = <<"Missing Source Material", "Missing Tutorial Pdf",
                        "Missing Transcript", "Missing completed MK2 generation">>
\* C19: when the stage gate disallows the stage (a required type has no active
\* item, or MK3 lacks a COMPLETED MK2 generation), start_generation raises the
\* validation error carrying every missing reason and writes nothing: the
\* generations, and the next version of the topic and stage, are as before.
C19_RefusedStartCreatesNothing ==
    [][(/\ ops' # ops
        /\ last'.op = "start_generation"
        /\ \/ ~(RequiredTypes(last'.stage) \subseteq ActiveTypes(last'.topic))
           \/ last'.stage = "MK3" /\ ~HasCompletedMK2(last'.topic))
       => /\ last'.error = ValueError("Cannot generate", NoId)
          /\ last'.gen = NoId
          /\ Len(last'.missing)
                = Cardinality(RequiredTypes(last'.stage) \ ActiveTypes(last'.topic))
                  + (IF last'.stage = "MK3" /\ ~HasCompletedMK2(last'.topic)
                     THEN 1 ELSE 0)
          /\ \A ty \in RequiredTypes(last'.stage) \ ActiveTypes(last'.topic) :
                InList(last'.missing, ReasonFor(ty))
          /\ (last'.stage = "MK3" /\ ~HasCompletedMK2(last'.topic))
                => InList(last'.missing, "Missing completed MK2 generation")
          /\ db'.generations = db.generations
          /\ db' = db
          /\ ids' = ids
          /\ get_next_version(db', last'.topic, last'.stage)
                = get_next_version(db, last'.topic, last'.stage)]_vars

\* a topic that already has a generation was refused a stage for two or more
\* reasons
C19_Witness ==
    /\ last.op = "start_generation"
    /\ last.error.kind = "ValueError"
    /\ Len(last.missing) >= 2
    /\ \E g \in DOMAIN db.generations : db.generations[g].topic_id = last.topic
\* C20: a successful start_generation adds exactly one generation and changes
\* no other record; the new one is PENDING, has the requested topic and stage,
\* the version get_next_version gave at call time, the prompt rendered for the
\* stage, topic and module, no response text, no page or file reference, and a
\* previous-generation reference only for MK3 (then a COMPLETED MK2 generation
\* of the topic).
C20_StartCreatesOnePending ==
    [][StartedStep =>
        LET g == last'.gen
            new == db'.generations[g]
        IN /\ g \notin DOMAIN db.generations
           /\ DOMAIN db'.generations = DOMAIN db.generations \cup {g}
           /\ \A h \in DOMAIN db.generations :
                 db'.generations[h] = db.generations[h]
           /\ db'.content = db.content
           /\ db'.topics = db.topics /\ db'.modules = db.modules
           /\ new.id = g
           /\ new.status = "PENDING"
           /\ new.topic_id = last'.topic /\ new.stage = last'.stage
           /\ new.version = get_next_version(db, last'.topic, last'.stage)
           /\ new.prompt_used.stage = last'.stage
           /\ new.prompt_used.topic_name = db.topics[last'.topic].name
           /\ new.prompt_used.module_name
                 = db.modules[db.topics[last'.topic].module_id].name
           /\ ArtifactsUnset(new)
           /\ new.previous_generation_id # NoId <=> last'.stage = "MK3"
           /\ last'.stage = "MK3" =>
                 LET prev == new.previous_generation_id
                 IN /\ prev \in DOMAIN db.generations
                    /\ db.generations[prev].topic_id = last'.topic
                    /\ db.generations[prev].stage = "MK2"
                    /\ db.generations[prev].status = "COMPLETED"
                    /\ new.prompt_used.previous_content
                          = db.generations[prev].response_content]_vars

\* an MK3 generation was started and refers to the topic's MK2 generation
C20_Witness ==
    /\ last.op = "start_generation"
    /\ last.error = NoError
    /\ last.stage = "MK3"
    /\ db.generations[last.gen].previous_generation_id \in DOMAIN db.generations
    /\ Cardinality(DOMAIN db.generations) = 2
\* C21: start_generation for MK3 takes, among the topic's COMPLETED MK2
\* generations, the one with the highest version, whichever of them was
\* completed first: its id is the new record's previous_generation_id and its
\* response text is the previous content handed to the prompt.
C21_MK3UsesHighestCompletedMK2 ==
    [][(StartedStep /\ last'.stage = "MK3") =>
       LET new == db'.generations[last'.gen]
           prev == new.previous_generation_id
           completed == {g \in DOMAIN db.generations :
                           /\ db.generations[g].topic_id = last'.topic
                           /\ db.generations[g].stage = "MK2"
                           /\ db.generations[g].status = "COMPLETED"}
       IN /\ prev \in completed
          /\ \A h \in completed :
                db.generations[h].version <= db.generations[prev].version
          /\ new.prompt_used.previous_content = db.generations[prev].response_content
          /\ new.prompt_used.previous_content \notin {NoText, EmptyText}]_vars

\* an MK3 generation was started with both MK2 generations COMPLETED on
\* different texts, and it refers to version 2
C21_Witness ==
    /\ last.op = "start_generation" /\ last.stage = "MK3" /\ last.error = NoError
    /\ \A i \in 1 .. 2 : /\ HasGeneration(db, PendingMK2Ids[i])
                         /\ db.generations[PendingMK2Ids[i]].status = "COMPLETED"
    /\ db.generations[PendingMK2Ids[1]].response_content
          # db.generations[PendingMK2Ids[2]].response_content
    /\ db.generations[last.gen].previous_generation_id = PendingMK2Ids[2]
    /\ db.generations[last.gen].prompt_used.previous_content
          = db.generations[PendingMK2Ids[2]].response_content

\* C22: in every reachable state previous_generation_id is set only on MK3
\* generations, and where it is set it names an existing generation of stage
\* MK2 whose status is COMPLETED, also after that MK2 generation was marked
\* failed or deleted.
C22_PreviousIsCompletedMK2 ==
    \A g \in DOMAIN db.generations :
        LET prev == db.generations[g].previous_generation_id
        IN prev # NoId =>
              /\ db.generations[g].stage = "MK3"
              /\ HasGeneration(db, prev)
              /\ db.generations[prev].stage = "MK2"
              /\ db.generations[prev].status = "COMPLETED"

\* C23: when the COMPLETED MK2 generation with the highest version has no
\* response text or an empty one, start_generation for MK3 fails with the
\* error of its own check, which is neither the gate's nor the prompt
\* builder's, and no record is created.
C23_EmptyMK2ResponseRefused ==
    [][(/\ ops' # ops
        /\ last'.op = "start_generation"
        /\ last'.stage = "MK3"
        /\ can_generate_stage(db, last'.topic, "MK3") = <<>>
        /\ \E g \in DOMAIN db.generations :
              /\ db.generations[g].topic_id = last'.topic
              /\ db.generations[g].stage = "MK2"
              /\ db.generations[g].status = "COMPLETED"
              /\ db.generations[g].response_content \in {NoText, EmptyText}
              /\ \A h \in DOMAIN db.generations :
                    (/\ db.generations[h].topic_id = last'.topic
                     /\ db.generations[h].stage = "MK2"
                     /\ db.generations[h].status = "COMPLETED")
                    => db.generations[h].version <= db.generations[g].version)
       => /\ last'.error = ValueError("MK2 completed without response", NoId)
          /\ last'.error # ValueError("Cannot generate", NoId)
          /\ last'.error # ValueError("MK3 requires previous_content", NoId)
          /\ last'.gen = NoId
          /\ db' = db /\ committed' = committed /\ ids' = ids
          /\ issued' = issued]_vars

\* MK3 was refused by that check although an older COMPLETED MK2 generation
\* has a text: version 2 holds the empty string
C23_Witness ==
    /\ last.op = "start_generation" /\ last.stage = "MK3"
    /\ last.error = ValueError("MK2 completed without response", NoId)
    /\ HasGeneration(db, PendingMK2Ids[1]) /\ HasGeneration(db, PendingMK2Ids[2])
    /\ db.generations[PendingMK2Ids[1]].status = "COMPLETED"
    /\ db.generations[PendingMK2Ids[1]].response_content \in Responses
    /\ db.generations[PendingMK2Ids[2]].status = "COMPLETED"
    /\ db.generations[PendingMK2Ids[2]].response_content = EmptyText
    /\ \A g \in DOMAIN db.generations : db.generations[g].stage # "MK3"

\* the fields of a persisted record that were set are still set
StillSet(old, new) ==
    /\ old.response_content # NoText => new.response_content # NoText
    /\ old.notion_page_id # NoId => new.notion_page_id # NoId
    /\ old.notion_url # NoUrl => new.notion_url # NoUrl
    /\ old.drive_backup_id # NoId => new.drive_backup_id # NoId
    /\ old.drive_backup_url # NoUrl => new.drive_backup_url # NoUrl

C25_UpdateResponseFrame ==
    [][(ops' # ops /\ last'.op = "update_generation_response") =>
       /\ remote' = remote
       /\ committed' = committed
       /\ ids' = ids
       /\ IF ~HasGeneration(db, last'.gen)
          THEN /\ last'.error = ValueError("Generation not found", last'.gen)
               /\ db' = db
          ELSE /\ last'.error = NoError
               /\ DOMAIN db'.generations = DOMAIN db.generations
               /\ db'.generations[last'.gen] =
                     [db.generations[last'.gen] EXCEPT
                         !.response_content = last'.text,
                         !.status = "COMPLETED"]
               /\ \A h \in DOMAIN db.generations \ {last'.gen} :
                     db'.generations[h] = db.generations[h]
               /\ db'.content = db.content
               /\ db'.topics = db.topics
               /\ db'.modules = db.modules]_vars

\* the response of a published generation was replaced next to a second
\* generation: the text is the new one, the references are still there
C25_Witness ==
    /\ last.op = "update_generation_response"
    /\ last.error = NoError
    /\ Cardinality(DOMAIN db.generations) = 2
    /\ ArtifactsSet(db.generations[last.gen])
    /\ db.generations[last.gen].response_content = last.text
    /\ committed.generations[last.gen].response_content # last.text

\* no two live folders have the same name under the same parent
NoTwinFolders(folders) ==
    \A i, j \in 1 .. Len(folders) :
        (/\ i # j
         /\ ~folders[i].trashed /\ ~folders[j].trashed
         /\ folders[i].parent = folders[j].parent)
        => folders[i].name # folders[j].name

\* C26: the folder step is idempotent: run a second time with the same module
\* and topic names it answers the same root, module and topic folder ids as
\* the first run and creates no folder, and no two folders ever have the same
\* name under the same parent.
C26_EnsureFoldersIdempotent ==
    [][(/\ ops' # ops
        /\ last.op = "ensure_folders" /\ last'.op = "ensure_folders"
        /\ last'.module = last.module /\ last'.topic = last.topic)
       => /\ last'.root_id = last.root_id
          /\ last'.module_folder_id = last.module_folder_id
          /\ last'.topic_folder_id = last.topic_folder_id
          /\ last'.created = 0
          /\ NoTwinFolders(remote'.folders)]_vars

RECURSIVE Concat(_)
Concat(lists) == IF lists = <<>> THEN <<>> ELSE Head(lists) \o Concat(Tail(lists))

\* C27: create_page sends its blocks in successive calls of at most 100 blocks
\* each, pages.create first and one append per further chunk; the children of
\* all calls, put together in call order, are the input sequence: no block is
\* dropped, sent twice or moved.
C27_ChunksCoverInput ==
    [][(ops' # ops /\ last'.op = "create_page") =>
       /\ \A k \in 1 .. Len(last'.children) :
             Len(last'.children[k]) <= PageBlockLimit
       /\ Concat(last'.children) = last'.content_blocks
       /\ Len(last'.children) = Len(last'.calls)
       /\ \A k \in 2 .. Len(last'.children) : last'.children[k] # <<>>
       /\ remote'.pages[last'.id].blocks = Len(last'.content_blocks)]_vars

\* a document of more than 200 blocks went out in three calls, the last one
\* not full
C27_Witness ==
    /\ last.op = "create_page"
    /\ Len(last.content_blocks) > 2 * PageBlockLimit
    /\ Len(last.children) = 3
    /\ Len(last.children[3]) < PageBlockLimit
    /\ Concat(last.children) = last.content_blocks

\* C28: after validate_blocks the text of a block is at most 2000 characters
\* long: a longer text is cut and marked with an ellipsis so that the result
\* is within the limit, a text of at most 2000 characters is unchanged.
C28_TextWithinLimit ==
    [][(ops' # ops /\ last'.op = "validate_blocks") =>
       /\ ContentLen(last'.content) <= TextLimit
       /\ last'.chars > TextLimit => last'.content.marker
       /\ last'.chars <= TextLimit =>
             last'.content = [kept |-> last'.chars, marker |-> FALSE]]_vars

\* C29: build_prompt for MK3 fails with the invalid-input error whenever
\* previous_content is absent or empty, and succeeds whenever it is non-empty,
\* with that exact text in the rendered prompt.
C29_MK3NeedsPreviousContent ==
    [][(ops' # ops /\ last'.op = "build_prompt" /\ last'.stage = "MK3") =>
       IF last'.previous_content \in {NoText, EmptyText}
       THEN last'.error = ValueError("MK3 requires previous_content", NoId)
       ELSE /\ last'.error = NoError
            /\ last'.prompt.previous_content = last'.previous_content]_vars

\* C30: delete_content of an existing item answers True and leaves the item
\* inactive whether the remote trash succeeds, answers failure or raises; the
\* remote failure is not passed on; every other item is as before.  For an
\* unknown id it answers False and changes nothing.
C30_DeleteContentDespiteRemote ==
    [][(ops' # ops /\ last'.op = "delete_content") =>
       /\ last'.error = NoError
       /\ committed' = committed
       /\ db'.generations = db.generations
       /\ IF \E c \in db.content : c.id = last'.item
          THEN /\ last'.result = TRUE
               /\ \A c \in db.content :
                     IF c.id = last'.item
                     THEN [c EXCEPT !.is_active = FALSE] \in db'.content
                     ELSE c \in db'.content
               /\ Cardinality(db'.content) = Cardinality(db.content)
               /\ \A c \in db'.content : c.id = last'.item => ~c.is_active
          ELSE /\ last'.result = FALSE
               /\ db' = db
               /\ remote' = remote]_vars

\* an uploaded item was deleted while the remote call raised: it is inactive
\* and its file is still live in the file store
C30_Witness ==
    /\ last.op = "delete_content"
    /\ last.outcome = "raises"
    /\ last.result = TRUE
    /\ \E c \in db.content :
          /\ c.id = last.item
          /\ ~c.is_active
          /\ c.drive_file_id # NoId
          /\ ~remote.files[c.drive_file_id].trashed

\* process_response raised because the local update or its commit failed, both
\* remote calls having succeeded
LocalWriteFailedStep ==
    /\ PublishFailedStep
    /\ last'.cause \in {"update failed", "commit failed"}

\* C31 as stated: when both remote calls of process_response succeed and the
\* local update or its commit then fails, the published page and file are left
\* in place: they are not archived or trashed.
C31_ArtifactsOrphaned ==
    [][LocalWriteFailedStep =>
          /\ ~remote'.pages[last'.notion_page_id].archived
          /\ ~remote'.files[last'.drive_file_id].trashed]_vars

\* C31 amended: when both remote calls of process_response succeed and the
\* local update or its commit then fails, the compensation runs for both
\* artifacts: the page is archived unless the archive call fails and the file
\* is trashed unless the trash call fails; an artifact stays live only when
\* its own compensating call failed.
C31_LocalFailureCompensates ==
    [][LocalWriteFailedStep =>
          /\ last'.notion_page_id # NoId /\ last'.drive_file_id # NoId
          /\ HasCall(last'.calls, "pages.update")
          /\ HasCall(last'.calls, "delete_file")
          /\ remote'.pages[last'.notion_page_id].archived
                <=> \E i \in 1 .. Len(last'.calls) :
                       last'.calls[i] = Call("pages.update", TRUE)
          /\ remote'.files[last'.drive_file_id].trashed
                <=> \E i \in 1 .. Len(last'.calls) :
                       last'.calls[i] = Call("delete_file", TRUE)]_vars

\* the commit failed after page and file were published, and both were taken
\* back
C31_Witness ==
    /\ last.op = "process_response"
    /\ last.cause = "commit failed"
    /\ remote.pages[last.notion_page_id].archived
    /\ remote.files[last.drive_file_id].trashed

\* C32: across any sequence of process_response, mark_generation_failed and
\* update_generation_response calls a generation has at most one live page and
\* at most one live backup file, and a generation that was published is never
\* published a second time: whenever a publish succeeds, the record it was
\* given refers to no page that is still un-archived and to no file that is
\* still un-trashed.
C32_PublishedAtMostOnce ==
    [][(PublishStep /\ last'.error = NoError) =>
          LET old == db.generations[last'.gen]
          IN /\ old.notion_page_id # NoId =>
                   remote.pages[old.notion_page_id].archived
             /\ old.drive_backup_id # NoId =>
                   remote.files[old.drive_backup_id].trashed]_vars

\* C33: a failed process_response takes back only the local changes of that
\* attempt: what was written earlier on the connection and not committed yet
\* is still there afterwards, and no record other than the target generation
\* differs from what it was before the call.
C33_RollbackOnlyOwnChanges ==
    [][PublishFailedStep =>
          /\ \A g \in DOMAIN db.generations \ {last'.gen} :
                /\ HasGeneration(db', g)
                /\ db'.generations[g] = db.generations[g]
          /\ DOMAIN db'.generations \subseteq DOMAIN db.generations
          /\ db'.content = db.content
          /\ db'.topics = db.topics
          /\ db'.modules = db.modules]_vars

\* C34: when process_response is rejected because the generation, its topic
\* or the topic's module is not found, no call to the document store or the
\* file store was made, no compensation ran, and the generation's record,
\* persisted status included, is as it was: it is not set to FAILED.
C34_RejectedBeforeAnyCall ==
    [][(/\ PublishStep
        /\ last'.error.kind = "ValueError"
        /\ last'.error.msg \in {"Generation not found", "Topic not found",
                                 "Module not found"})
       => /\ last'.calls = <<>>
          /\ remote' = remote
          /\ db' = db
          /\ committed' = committed
          /\ HasGeneration(committed, last'.gen) =>
                committed'.generations[last'.gen].status = last'.durable]_vars

\* a committed PENDING generation whose topic was deleted was refused and is
\* still PENDING
C34_Witness ==
    /\ last.op = "process_response"
    /\ last.error.msg = "Topic not found"
    /\ HasGeneration(committed, last.gen)
    /\ committed.generations[last.gen].status = "PENDING"
    /\ db.generations[last.gen].status = "PENDING"
    /\ remote.pages = <<>>

\* C35: the gate is asked first: when it refuses, start_generation fails with
\* the gate's error even if the topic has no record; when it passes and the
\* topic record, or else the record of the topic's module, does not exist,
\* start_generation fails with the not-found error of that record.  In each
\* case no generation is created.
C35_NotFoundAfterGate ==
    [][(/\ ops' # ops
        /\ last'.op = "start_generation"
        /\ \/ can_generate_stage(db, last'.topic, last'.stage) # <<>>
           \/ last'.topic \notin DOMAIN db.topics
           \/ db.topics[last'.topic].module_id \notin DOMAIN db.modules)
       => /\ last'.error =
                IF can_generate_stage(db, last'.topic, last'.stage) # <<>>
                THEN ValueError("Cannot generate", NoId)
                ELSE IF last'.topic \notin DOMAIN db.topics
                THEN ValueError("Topic not found", last'.topic)
                ELSE ValueError("Module not found",
                                db.topics[last'.topic].module_id)
          /\ last'.gen = NoId
          /\ db' = db /\ committed' = committed /\ ids' = ids
          /\ issued' = issued]_vars

\* the topic with all its content uploaded has no record any more, and
\* start_generation answered not-found
C35_Witness ==
    /\ last.op = "start_generation"
    /\ last.error = ValueError("Topic not found", last.topic)
    /\ can_generate_stage(db, last.topic, last.stage) = <<>>
    /\ last.topic \notin DOMAIN db.topics
    /\ db.generations = committed.generations

\* C36: when, after a publish failure, the write of the FAILED status fails
\* too, process_response raises no further error: it raises the wrapping
\* error that carries the original failure, and the persisted generation
\* record keeps the status and the fields it had before the attempt.
C36_NoTertiaryError ==
    [][(PublishFailedStep /\ last'.marked \in {"update failed", "commit failed"})
       => /\ last'.error = WrappedError(last'.gen, last'.cause)
          /\ last'.cause \notin {"", "update failed", "commit failed"}
                \/ (last'.cause \in {"update failed", "commit failed"}
                    /\ HasCall(last'.calls, "upload_file"))
          /\ committed' = committed
          /\ HasGeneration(committed, last'.gen) =>
                committed'.generations[last'.gen].status = last'.durable]_vars

\* the upload failed, then the commit of the FAILED status failed: the
\* committed record is still PENDING and the error names the upload
C36_Witness ==
    /\ last.op = "process_response"
    /\ last.marked = "commit failed"
    /\ last.cause = "upload_file failed"
    /\ last.error = WrappedError(last.gen, "upload_file failed")
    /\ HasGeneration(committed, last.gen)
    /\ committed.generations[last.gen].status = "PENDING"
    /\ ArtifactsUnset(committed.generations[last.gen])

\* can_generate of the gate's answer
Allowed(d, topic, stage) == can_generate_stage(d, topic, stage) = <<>>

\* the database without its generations
NoGenerations(d) == [d EXCEPT !.generations = <<>>]

\* C37: the gate is cumulative in every reachable state: a topic allowed MK3
\* is allowed MK2, a topic allowed MK2 is allowed MK1, and whether MK1 and MK2
\* are allowed does not depend on which generations exist or on their status.
C37_GateCumulative ==
    \A t \in GateTopics :
        /\ Allowed(db, t, "MK3") => Allowed(db, t, "MK2")
        /\ Allowed(db, t, "MK2") => Allowed(db, t, "MK1")
        /\ \A s \in {"MK1", "MK2"} :
              /\ Allowed(db, t, s) <=> Allowed(NoGenerations(db), t, s)
              /\ can_generate_stage(db, t, s)
                    = can_generate_stage(NoGenerations(db), t, s)

\* one topic is allowed all three stages, having a COMPLETED MK2 generation,
\* and the other is allowed none
C37_Witness ==
    /\ Allowed(db, 1, "MK3") /\ Allowed(db, 1, "MK2") /\ Allowed(db, 1, "MK1")
    /\ ~Allowed(NoGenerations(db), 1, "MK3")
    /\ ~Allowed(db, 2, "MK1")

\* C38: after the folder step of a publish the topic folder, into which the
\* file is uploaded, bears the topic's name and lies in the module folder, which
\* bears the module's name and lies in the root folder; the root answered is
\* the one top-level folder of the root name, whatever the module and topic
\* are called.
C38_FileUnderFixedRoot ==
    last.op = "ensure_folders" =>
        LET f == remote.folders
        IN /\ f[last.topic_folder_id].name = last.topic
           /\ f[last.topic_folder_id].parent = last.module_folder_id
           /\ f[last.module_folder_id].name = last.module
           /\ f[last.module_folder_id].parent = last.root_id
           /\ f[last.root_id].name = DRIVE_ROOT_FOLDER
           /\ f[last.root_id].parent = NoId
           /\ \A i \in 1 .. Len(f) :
                 (f[i].name = DRIVE_ROOT_FOLDER /\ f[i].parent = NoId /\ ~f[i].trashed)
                 => i = last.root_id

(***************************************************************************)
(* Two sessions.  Each run of app.py opens a connection of its own          *)
(* (database/connection.py get_connection) and commits on leaving the with *)
(* block.  A connection reads the committed database and its own           *)
(* uncommitted writes; the storage engine lets one connection write at a   *)
(* time, so db is the view of the connection holding the write lock        *)
(* (last.writer) and every other connection reads committed.  last holds   *)
(* each session's position in start_generation and the values it has       *)
(* computed so far.                                                        *)
(***************************************************************************)
Sessions == {1, 2}

\* steps taken in one run of the two-session specification
MaxSessionOps == 6

NoWriter == 0

\* what the connection of session s reads
View(s) == IF last.writer = s THEN db ELSE committed

IdleCall == [topic |-> NoId, stage |-> "MK1", version |-> 0, prev |-> NoId,
             prompt |-> NoText]

SessionStep(A) == ops < MaxSessionOps /\ ops' = ops + 1 /\ A

\* generation_service.py lines 133-164 on the view d
SessionPrompt(d, topic, stage, prev) ==
    LET t == d.topics[topic]
        m == d.modules[t.module_id]
        previous_content == IF prev = NoId THEN NoText
                            ELSE d.generations[prev].response_content
    IN build_prompt(stage, t.name, m.name,
                    FileNames(get_for_topic(d, topic)), previous_content)

\* a step of session s that ends start_generation with an error
SessionRaised(s, err) ==
    /\ last' = [last EXCEPT !.error = err, !.pc[s] = "idle", !.call[s] = IdleCall,
                            !.session = s]
    /\ UNCHANGED <<db, committed, remote, ids, issued>>

\* start_generation lines 114-167 in session s: the gate, the lookups, the
\* prompt and get_next_version, all reads on the session's connection
SessionReadVersion(s, topic, stage) ==
    /\ last.pc[s] = "idle"
    /\ LET d == View(s)
           Versioned(prev) ==
               IF SessionPrompt(d, topic, stage, prev).error # NoError
               THEN SessionRaised(s, SessionPrompt(d, topic, stage, prev).error)
               ELSE /\ last' = [last EXCEPT
                                  !.error = NoError, !.session = s,
                                  !.pc[s] = "versioned",
                                  !.call[s] =
                                      [topic |-> topic, stage |-> stage,
                                       version |-> get_next_version(d, topic, stage),
                                       prev |-> prev,
                                       prompt |-> SessionPrompt(d, topic, stage,
                                                                prev).prompt]]
                    /\ UNCHANGED <<db, committed, remote, ids, issued>>
       IN IF can_generate_stage(d, topic, stage) # <<>>
          THEN SessionRaised(s, ValueError("Cannot generate", NoId))
          ELSE IF topic \notin DOMAIN d.topics
          THEN SessionRaised(s, ValueError("Topic not found", topic))
          ELSE IF d.topics[topic].module_id \notin DOMAIN d.modules
          THEN SessionRaised(s, ValueError("Module not found",
                                           d.topics[topic].module_id))
          ELSE IF stage # "MK3"
          THEN Versioned(NoId)
          ELSE \E prev \in LatestCompleted(d, topic, "MK2") :
                  IF Falsy(d.generations[prev].response_content)
                  THEN SessionRaised(s, ValueError("MK2 completed without response",
                                                   NoId))
                  ELSE Versioned(prev)

\* start_generation lines 169-181 in session s: the record is built with the
\* version computed before and inserted; the INSERT takes the write lock,
\* which it gets when no other connection has uncommitted writes
SessionInsert(s) ==
    /\ last.pc[s] = "versioned"
    /\ last.writer \in {NoWriter, s}
    /\ ids < MaxGens
    /\ LET c == last.call[s]
           gen == GenerationCreate(ids + 1, c.topic, c.stage, c.version,
                                   c.prompt, c.prev)
       IN /\ db' = RepoCreate(View(s), gen)
          /\ ids' = ids + 1
          /\ issued' = Append(issued, [topic_id |-> c.topic, stage |-> c.stage,
                                        version |-> gen.version, id |-> gen.id])
          /\ last' = [last EXCEPT !.error = NoError, !.session = s,
                                  !.writer = s, !.pc[s] = "idle",
                                  !.call[s] = IdleCall]
    /\ UNCHANGED <<committed, remote>>

\* the INSERT of session s while another connection holds the write lock:
\* it waits (SessionInsert is not enabled) or gives up after the busy timeout
SessionLocked(s) ==
    /\ last.pc[s] = "versioned"
    /\ last.writer \notin {NoWriter, s}
    /\ SessionRaised(s, [kind |-> "OperationalError", msg |-> "database is locked",
                         id |-> NoId, cause |-> ""])

\* the run of session s ends: get_connection commits and closes
SessionCommit(s) ==
    /\ last.writer = s
    /\ last.pc[s] = "idle"
    /\ committed' = db
    /\ last' = [last EXCEPT !.error = NoError, !.session = s, !.writer = NoWriter]
    /\ UNCHANGED <<db, remote, ids, issued>>

InitSessions ==
    /\ db = GateDb(Uploaded(1, ContentTypes) \cup Uploaded(2, ContentTypes))
    /\ committed = db
    /\ remote = [pages |-> <<>>, files |-> <<>>, folders |-> <<>>]
    /\ ids = 0
    /\ issued = <<>>
    /\ last = [op |-> "sessions", error |-> NoError, session |-> 0,
               writer |-> NoWriter,
               pc |-> [s \in Sessions |-> "idle"],
               call |-> [s \in Sessions |-> IdleCall]]
    /\ ops = 0

NextSessions ==
    \/ \E s \in Sessions, t \in GateTopics, st \in Stages :
          SessionStep(SessionReadVersion(s, t, st))
    \/ \E s \in Sessions : SessionStep(SessionInsert(s))
    \/ \E s \in Sessions : SessionStep(SessionLocked(s))
    \/ \E s \in Sessions : SessionStep(SessionCommit(s))

SpecSessions == InitSessions /\ [][NextSessions]_vars

\* C39: two start_generation calls for the same topic and stage, made from two
\* sessions whose steps interleave, create generations of distinct versions:
\* no two generation records of one topic and stage have the same version, in
\* the committed database or in any connection's view.
C39_InterleavedVersionsDistinct ==
    \A d \in {db, committed} :
        \A g, h \in DOMAIN d.generations :
            (/\ g # h
             /\ d.generations[g].topic_id = d.generations[h].topic_id
             /\ d.generations[g].stage = d.generations[h].stage)
            => d.generations[g].version # d.generations[h].version

(***************************************************************************)
(* Two sessions publishing.  process_response reads the generation, the    *)
(* topic and the module on its connection (lines 79-98), then works on the *)
(* records it holds in memory: the remote calls, the update and the commit *)
(* (lines 100-169) or the except block (lines 171-190).  Between the two   *)
(* parts the other session may run.  last.held is what each session holds *)
(* in memory, last.made the artifacts of the call it completed.            *)
(***************************************************************************)
NoHeld == [gen |-> NoId, text |-> NoText]

NoMade == [gen |-> NoId, page |-> NoId, file |-> NoId]

\* lines 79-98 in session s: the reads and the preconditions
PublishCheck(s, g, r) ==
    /\ last.pc[s] = "idle"
    /\ LET d == View(s)
           Rejected(err) ==
               last' = [last EXCEPT !.error = err, !.session = s,
                                    !.made[s] = NoMade]
       IN IF ~HasGeneration(d, g)
          THEN Rejected(ValueError("Generation not found", g))
          ELSE IF AlreadyCompleted(d.generations[g])
          THEN Rejected(ValueError("Generation already completed", g))
          ELSE IF d.generations[g].topic_id \notin DOMAIN d.topics
          THEN Rejected(ValueError("Topic not found", d.generations[g].topic_id))
          ELSE IF d.topics[d.generations[g].topic_id].module_id
                     \notin DOMAIN d.modules
          THEN Rejected(ValueError("Module not found",
                            d.topics[d.generations[g].topic_id].module_id))
          ELSE last' = [last EXCEPT
                           !.error = NoError, !.session = s,
                           !.pc[s] = "checked", !.made[s] = NoMade,
                           !.held[s] =
                               [gen |-> d.generations[g], text |-> r,
                                topic |-> d.topics[d.generations[g].topic_id],
                                module |-> d.modules[
                                    d.topics[d.generations[g].topic_id].module_id]]]
    /\ UNCHANGED <<db, committed, remote, ids, issued>>

\* lines 100-190 in session s: the try block on the records held, then the
\* update and the commit, or the except block.  While the other connection
\* holds the write lock the session's own updates fail.
PublishFinish(s, database_id, fail, k, archiveFails, trashFails, mark) ==
    /\ last.pc[s] = "checked"
    /\ Len(remote.pages) < MaxPages
    /\ last.writer \notin {NoWriter, s}
          => (fail \notin {"none", "commit"} /\ mark = "update failed")
    /\ LET h == last.held[s]
           locked == last.writer \notin {NoWriter, s}
       IN \E out \in TryBlock(remote, h.gen, h.topic, h.module, h.text,
                              database_id, fail, k) :
             IF out.ok
             THEN /\ db' = RepoUpdate(View(s), out.generation)
                  /\ committed' = db'
                  /\ remote' = out.remote
                  /\ last' = [last EXCEPT
                                 !.error = NoError, !.session = s,
                                 !.writer = NoWriter,
                                 !.pc[s] = "idle", !.held[s] = NoHeld,
                                 !.made[s] = [gen |-> h.gen.id,
                                              page |-> out.notion_page_id,
                                              file |-> out.drive_file_id]]
             ELSE LET rb == Rollback(out.remote, out.notion_page_id,
                                     out.drive_file_id, archiveFails, trashFails)
                      failed == FailGeneration(out.generation)
                  IN /\ remote' = rb.remote
                     /\ db' = IF locked THEN db
                              ELSE IF mark = "update failed" THEN committed
                              ELSE RepoUpdate(committed, failed)
                     /\ committed' = IF ~locked /\ mark = "ok" THEN db'
                                     ELSE committed
                     /\ last' = [last EXCEPT
                                    !.error = WrappedError(h.gen.id, out.cause),
                                    !.session = s, !.pc[s] = "idle",
                                    !.held[s] = NoHeld,
                                    !.writer = IF locked THEN @
                                               ELSE IF mark = "commit failed" THEN s
                                               ELSE NoWriter]
    /\ UNCHANGED <<ids, issued>>

\* the run of session s ends with a write of its connection uncommitted:
\* get_connection commits when the caller has caught the error, rolls back
\* when the error reaches it
PublishClose(s, caught) ==
    /\ last.pc[s] = "idle"
    /\ last.writer = s
    /\ IF caught THEN committed' = db /\ UNCHANGED db
                 ELSE db' = committed /\ UNCHANGED committed
    /\ last' = [last EXCEPT !.error = NoError, !.session = s,
                            !.writer = NoWriter]
    /\ UNCHANGED <<remote, ids, issued>>

\* one PENDING generation of the seeded topic, committed
InitPublishers ==
    /\ db = RepoCreate(SeedDb,
                       GenerationCreate(1, 1, "MK1", get_next_version(SeedDb, 1, "MK1"),
                                        SessionPrompt(SeedDb, 1, "MK1", NoId).prompt,
                                        NoId))
    /\ committed = db
    /\ remote = [pages |-> <<>>, files |-> <<>>, folders |-> <<>>]
    /\ ids = 1
    /\ issued = <<[topic_id |-> 1, stage |-> "MK1", version |-> 1, id |-> 1]>>
    /\ last = [op |-> "publishers", error |-> NoError, session |-> 0,
               writer |-> NoWriter,
               pc |-> [s \in Sessions |-> "idle"],
               held |-> [s \in Sessions |-> NoHeld],
               made |-> [s \in Sessions |-> NoMade]]
    /\ ops = 0

NextPublishers ==
    \/ \E s \in Sessions, g \in GenIds, r \in Responses :
          SessionStep(PublishCheck(s, g, r))
    \/ \E s \in Sessions, database_id \in DatabaseIds, fail \in FailPoints,
          archiveFails \in BOOLEAN, trashFails \in BOOLEAN, mark \in MarkOutcomes :
          \E k \in 1 .. (IF fail = "append" /\ last.pc[s] = "checked"
                         THEN NumChunks(validate_blocks(
                                  markdown_to_notion_blocks(last.held[s].text))
                                  - PageBlockLimit)
                         ELSE 1) :
              /\ fail = "none" => mark = "ok"
              /\ archiveFails => fail \in PageKnown
              /\ trashFails => fail \in FileKnown
              /\ SessionStep(PublishFinish(s, database_id, fail, k, archiveFails,
                                           trashFails, mark))
    \/ \E s \in Sessions, caught \in BOOLEAN : SessionStep(PublishClose(s, caught))

SpecPublishers == InitPublishers /\ [][NextPublishers]_vars

\* the page and the file session s made are both live
MadeLive(s) ==
    /\ last.made[s].gen # NoId
    /\ ~remote.pages[last.made[s].page].archived
    /\ ~remote.files[last.made[s].file].trashed

\* C40: of two interleaved process_response calls for one PENDING generation
\* at most one leaves a live page and a live backup file, and the committed
\* record of a generation a call completed references that call's page and
\* file.
C40_OnePublishPerGeneration ==
    /\ \A s1, s2 \in Sessions :
          (s1 # s2 /\ last.made[s1].gen = last.made[s2].gen /\ MadeLive(s1))
              => ~MadeLive(s2)
    /\ \A s \in Sessions :
          (MadeLive(s) /\ last.session = s /\ last.error = NoError)
              => LET rec == committed.generations[last.made[s].gen]
                 IN /\ rec.status = "COMPLETED"
                    /\ rec.notion_page_id = last.made[s].page
                    /\ rec.drive_backup_id = last.made[s].file

====
